---- MODULE Spec2Model ----
(***************************************************************************)
(* Model of the stremfy cache store (caching/cache.go), the background     *)
(* work queue with its task deduplicator (caching package, worker file)    *)
(* and the shutdown path of the main program.                              *)
(***************************************************************************)
EXTENDS Integers, Sequences, FiniteSets, TLC

(* ------------------------------ bounds --------------------------------- *)

\* last instant of the simulated clock
MaxTime == 2

\* largest ttl handed to Set (ttl ranges over 1..MaxTTL)
MaxTTL == 2

\* the cache keys the callers of the store specifications use
UserKeys == {"a", "b"}

\* strings.Join(hashes, ",")
RECURSIVE Join(_)
Join(hashes) ==
    IF Len(hashes) = 0 THEN ""
    ELSE IF Len(hashes) = 1 THEN hashes[1]
    ELSE hashes[1] \o "," \o Join(Tail(hashes))

\* Client.generateCacheKey: the digest of the joined list, in the order given
\* (the digest is kept symbolic: different strings have different digests)
generateCacheKey(hashes) == "torbox_cache_sha256(" \o Join(hashes) \o ")"

\* the hash lists the availability check is asked for: the same two hashes
\* in either order
HashLists == {<<"h1", "h2">>, <<"h2", "h1">>}

\* the hash lists a request handler can ask the availability check for
RequestHashLists == HashLists \cup {<<"h1">>, <<"h2">>}

\* the title every request of the model searches for
SearchTitle == "title"

\* the seasons a request, a title or a file name can carry
MaxSeason == 2

\* the season every request of the model asks for
ReqSeason == 1

\* the seasons a search of the model is made for
QuerySeasons == (1..MaxSeason) \cup {ReqSeason} \cup {1, 2}

\* the most query variants Scrape builds for a request
MaxQueries == 3

\* the season whose requests get no query for the packs that start at the
\* first season
FirstSeason == 1

\* fmt.Sprintf("%02d", n) for n below 100
Pad2(n) ==
    LET digit == <<"0", "1", "2", "3", "4", "5", "6", "7", "8", "9">>
    IN  digit[(n \div 10) + 1] \o digit[(n % 10) + 1]

\* the query variants Scrape builds for a request
Queries(mediaType, season, hasEpisode) ==
    IF mediaType = "movie" THEN <<SearchTitle>>
    ELSE IF mediaType = "series" /\ hasEpisode
    THEN <<SearchTitle \o " S" \o Pad2(season), SearchTitle \o " complet">>
         \o (IF season # FirstSeason THEN <<SearchTitle \o " s01-">> ELSE <<>>)
    ELSE <<>>

\* JackettScraper.generateCacheKey: the digest of the query (kept symbolic)
JackettCacheKey(query) == "jackett_search_sha256(" \o query \o ")"

\* the keys the searches of the model store their results under
SearchKeys ==
    UNION {{JackettCacheKey(Queries(m, season, TRUE)[q]) :
                q \in 1..Len(Queries(m, season, TRUE))} :
           m \in {"movie", "series"}, season \in QuerySeasons}

\* cache keys: those of the callers, those of the availability check and
\* those of the searches
Keys ==
    UserKeys \cup {generateCacheKey(hashes) : hashes \in RequestHashLists} \cup SearchKeys

\* the ttl the client of the debrid service is configured with (c.cacheTTL),
\* in clock units of ten minutes: CACHE_TORBOX_CHECK_TTL
CheckTTL == 1

\* the ttl the scraper is configured with (j.searchTTL): CACHE_SEARCH_TTL
SearchTTL == 3

\* values stored with Set: indexer results ([]JackettResult) and debrid
\* availability results ([]debrid.CacheCheck)
TTLValues == {"results", "cachecheck"}

\* values stored with SetPermanent: the link -> {hash, sources} map
PermValues == {"hashmap"}

TTLs == 1..MaxTTL

\* last hour of the simulated clock in the deduplicator specification
MaxHours == 26

\* hours that pass in the specification of the pool as time passes
MaxPoolHours == 6

\* ids of the works asked for in the pool specification
NumIds == 2

\* ids asked of ShouldQueue in the deduplicator specification
NumDedupIds == 1

\* tasks accepted over one run of the pool specification
MaxTasks == 3

\* submissions over one run of the full-queue specification
MaxSubmits == 51

\* items one run of the trending feeder may offer in the model
MaxFeed == 2

\* a window of MaxWindowExtra hours above the sweep age is also asked for
MaxWindowExtra == 2

\* tasks submitted over one run of the shutdown specification
MaxShutdownTasks == 1

\* values written to the cache in the shutdown specification: indexer results
ShutdownValues == {"results"}

(* ------------------------- program constants --------------------------- *)

\* make(chan BackgroundTask, 50)
QueueCap == 50

\* bgWorkers: 1 in NewBackgroundWorker
bgWorkers == 1

\* 24*time.Hour: the window UserBackgroundTask and the feeder pass to ShouldQueue
DedupWindow == 24

\* cleanupLoop removes records older than 24 hours
CleanupAge == 24

\* prefetchTrendingContent returns at once when len(queue) > 10
IdleThreshold == 10

\* prefetchTrendingContent ends its run when len(queue) > 30
FillThreshold == 30

\* the feeder keeps the first 40 trending items
MaxTrending == 40

Workers == 1..bgWorkers

\* every id a task may carry
Ids == 1..MaxSubmits

\* the ids submitted in the pool specification
PoolIds == 1..NumIds

\* the ids submitted in the deduplicator specification
DedupIds == 1..NumDedupIds

\* the windows asked of ShouldQueue in the deduplicator specification
Windows == {DedupWindow, CleanupAge + MaxWindowExtra}

(* ------------------------------ state ---------------------------------- *)

VARIABLES
    clock,        \* time.Now()
    items,        \* Cache.items: key -> Item (present = FALSE: no entry)
    dirty,        \* Cache.dirty
    file,         \* the ".cache" file on disk
    fresh,        \* the store a new process builds with NewCache
    lastWrite,    \* history: the last write operation applied to each key
    justSwept,    \* history: the last operation was a sweep
    snapCurrent,  \* history: Flush wrote the file and no mutation followed
    savers,       \* the two callers of saveToFile: where each is and what it holds
    gpc,          \* where gracefulShutdown is
    pending,      \* TaskDeduplicator.pending: id -> queued time (NoRecord: none)
    queue,        \* the tasks buffered in backgroundQueue
    queueClosed,  \* close(bk.backgroundQueue) has run
    stopClosed,   \* close(bk.stopChan) has run
    wpc,          \* where each backgroundWorker goroutine is
    wtask,        \* the task a worker is executing
    wg,           \* workersDone: workers that have not called Done
    stopPc,       \* where the caller of Stop / StopAndWait is
    stopMode,     \* which of Stop and StopAndWait was called
    userSend,     \* ids whose UserBackgroundTask passed ShouldQueue and is at its select
    fpc,          \* where prefetchTrendingContent is
    fitem,        \* the id of the feeder's current item
    fleft,        \* trending items the feeder's run has not looked at yet
    fran,         \* history: the feeder has started a run
    crashed,      \* the process has died of an unrecovered panic
    nextUid,      \* history: number of tasks accepted into the queue
    handedLog,    \* history: the tasks handed to a handler, in order
    lastSend,     \* history: how the last select-send of a producer ended
    accPrev,      \* history: the accept before the last one, per id and window
    accLast,      \* history: the last accept since Remove(id), per id and window
    hs,           \* the activation of handleStream serving the current request
    call,         \* the last call of a pure function: its name, input and result
    scr           \* the activation of JackettScraper.Scrape and the hash cache it uses

cacheVars == <<items, dirty, file, fresh, lastWrite, justSwept, snapCurrent, savers>>

dedupVars == <<pending, accPrev, accLast>>

reqVars == <<hs, call, scr>>

poolVars == <<queue, queueClosed, stopClosed, wpc, wtask, wg, stopPc, stopMode,
              userSend, fpc, fitem, fleft, fran, crashed, nextUid, handedLog, lastSend>>

vars == <<clock, items, dirty, file, fresh, lastWrite, justSwept, snapCurrent, savers, gpc,
          pending, accPrev, accLast,
          queue, queueClosed, stopClosed, wpc, wtask, wg, stopPc, stopMode,
          userSend, fpc, fitem, fleft, fran, crashed, nextUid, handedLog, lastSend,
          hs, call, scr>>

\* no entry under a key
NoItem == [present |-> FALSE, value |-> "nil", expiresAt |-> 0, neverExpires |-> FALSE]

\* make(map[string]*Item)
EmptyMap == [k \in Keys |-> NoItem]

\* the zero time.Time that SetPermanent leaves in ExpiresAt
ZeroTime == 0

(* --------------------------- pure functions ---------------------------- *)

\* time.Now().After(item.ExpiresAt)
After(now, t) == now > t

\* the test of Get and cleanup: !item.NeverExpires && now.After(item.ExpiresAt)
Expired(item, now) == ~item.neverExpires /\ After(now, item.expiresAt)

\* Get with the expiry test dropped
GetNoExpiry(m, now, k) ==
    IF ~m[k].present THEN [found |-> FALSE, value |-> "nil"]
    ELSE [found |-> TRUE, value |-> m[k].value]

\* Cache.Get on map m at instant now
Get(m, now, k) ==
    IF ~m[k].present THEN [found |-> FALSE, value |-> "nil"]
    ELSE IF Expired(m[k], now) THEN [found |-> FALSE, value |-> "nil"]
    ELSE [found |-> TRUE, value |-> m[k].value]

\* the Item built by Set, with the ttl ignored
SetItemNoTTL(v, now, ttl) ==
    [present |-> TRUE, value |-> v, expiresAt |-> now, neverExpires |-> FALSE]

\* the Item built by Set
SetItem(v, now, ttl) ==
    [present |-> TRUE, value |-> v, expiresAt |-> now + ttl, neverExpires |-> FALSE]

\* the Item built by SetPermanent
PermItem(v) ==
    [present |-> TRUE, value |-> v, expiresAt |-> ZeroTime, neverExpires |-> TRUE]

\* the sweep that also removes permanent items
SweptAll(m, now) ==
    [k \in Keys |-> IF m[k].present /\ After(now, m[k].expiresAt) THEN NoItem ELSE m[k]]

\* the map after the loop of cleanup
Swept(m, now) ==
    [k \in Keys |-> IF m[k].present /\ Expired(m[k], now) THEN NoItem ELSE m[k]]

\* concrete types registered with gob in init(): []debrid.CacheCheck is not
Registered(v) == v \in {"results", "hashmap"}

\* encoder.Encode(data): fails when an interface value has an unregistered type
Encodable(m) == \A k \in Keys : m[k].present => Registered(m[k].value)

FileMissing == [kind |-> "missing", items |-> EmptyMap]

\* os.Create truncated the file and nothing decodable was written
FilePartial == [kind |-> "partial", items |-> EmptyMap]

\* a save that writes the file even when the encoder fails
WrittenAlways(m) == [kind |-> "data", items |-> m]

\* the file after saveToFile of map m: os.Create truncates, Encode writes
Written(m) == IF Encodable(m) THEN [kind |-> "data", items |-> m] ELSE FilePartial

\* a file holding an encoding of entries of m that does not decode: the
\* process died inside Encode, or the entry count written ahead of the
\* entries is not the number of entries written
FileTorn(m) == [kind |-> "torn", items |-> m]

\* Cache.Size()
Size(m) == Cardinality({k \in Keys : m[k].present})

\* the file after Encode wrote the entry count n and then the entries of m
Encoded(m, n) == IF Size(m) = n THEN Written(m) ELSE IF Encodable(m) THEN FileTorn(m) ELSE FilePartial

\* a load that keeps what was decoded before the decoder failed
LoadedPartly(f) == f.items

\* the items of a new store after loadFromFile
Loaded(f) == IF f.kind = "data" THEN f.items ELSE EmptyMap

NotLoaded == [loaded |-> FALSE, items |-> EmptyMap]

NoWrite == [op |-> "none", value |-> "nil", at |-> 0, ttl |-> 0]


(* ------------------------- snapshot writers ---------------------------- *)

\* the goroutines that call saveToFile: startPeriodicSave and Flush
Savers == {"periodic", "flush"}

\* a saver that is not inside saveToFile
IdleSaver == [pc |-> "idle", ref |-> "none", old |-> EmptyMap, begin |-> EmptyMap,
              held |-> [k \in Keys |-> {}], sizes |-> {},
              raced |-> FALSE, shared |-> FALSE]

\* the contents of the map a saver took its reference to: c.items itself, or
\* the map Clear has replaced since
RefMap(sv, m) == IF sv.ref = "old" THEN sv.old ELSE m

\* a saver holding a reference to the live map, past the read of c.items
HoldsLive(sv) == sv.ref = "live" /\ sv.pc \in {"create", "encoding"}

\* what a write to the live map (Set, SetPermanent, Delete, a deleting sweep)
\* that leaves it as m does to the savers: an encoder iterating that map has
\* been raced, and can read each entry and the length of the map as they are
\* after the write
Touched(svs, m) ==
    [p \in Savers |->
        IF svs[p].pc = "encoding" /\ svs[p].ref = "live"
        THEN [svs[p] EXCEPT !.raced = TRUE,
                            !.held = [k \in Keys |-> @[k] \cup {m[k]}],
                            !.sizes = @ \cup {Size(m)}]
        ELSE svs[p]]

\* what Clear does to the savers: c.items now names a new map, the savers
\* keep the old one
Detached(svs, m) ==
    [p \in Savers |->
        IF HoldsLive(svs[p]) THEN [svs[p] EXCEPT !.ref = "old", !.old = m] ELSE svs[p]]

\* the maps an encoder can have seen when the map was written to while it
\* iterated: per key, one of the entries the map held under that key
TornMaps(h) ==
    LET varied == {k \in Keys : Cardinality(h[k]) > 1}
        picks == {f \in [varied -> UNION {h[k] : k \in varied}] : \A k \in varied : f[k] \in h[k]}
    IN  {[k \in Keys |-> IF k \in varied THEN f[k] ELSE CHOOSE e \in h[k] : TRUE] : f \in picks}

\* what a saver that truncates or writes the file does to the other savers:
\* one that has the file open now shares it with another writer
Overlapped(svs, p) ==
    [q \in Savers |->
        IF q # p /\ svs[q].pc = "encoding"
        THEN [svs[q] EXCEPT !.shared = TRUE] ELSE svs[q]]

\* the maps the encoder of a saver can have iterated
SeenMaps(sv) == IF sv.raced THEN TornMaps(sv.held) ELSE {sv.begin}

\* the file contents a saver whose encoder iterated map m can leave: the
\* entry count it read from the map followed by the entries, or nothing
\* decodable when another writer had the file open as well
Outcomes(sv, m) ==
    {Encoded(m, n) : n \in sv.sizes} \cup (IF sv.shared THEN {FilePartial} ELSE {})

(* --------------------------- deduplicator ------------------------------ *)

\* no record under an id
NoRecord == -1

\* ShouldQueue that accepts every call
AcceptsAlways(p, id, maxAge, now) == TRUE

\* ShouldQueue's decision: no record, or time.Since(queuedAt) < maxAge is false
Accepts(p, id, maxAge, now) == p[id] = NoRecord \/ ~(now - p[id] < maxAge)

\* td.pending[id] = time.Now()
Recorded(p, id, now) == [p EXCEPT ![id] = now]

\* a Remove that deletes nothing
RemovedNever(p, id) == p

\* TaskDeduplicator.Remove
Removed(p, id) == [p EXCEPT ![id] = NoRecord]

\* one pass of cleanupLoop
Expunged(p, now) ==
    [i \in Ids |-> IF p[i] # NoRecord /\ now - p[i] > CleanupAge THEN NoRecord ELSE p[i]]

(* ------------------------------ queue ---------------------------------- *)

NoTask == [uid |-> 0, id |-> 0, type |-> "none", priority |-> 0]

\* the task UserBackgroundTask builds
UserTask(uid, id) == [uid |-> uid, id |-> id, type |-> "series-prefetch", priority |-> 0]

\* the task prefetchTrendingContent builds for a trending show
TrendingTask(uid, id) == [uid |-> uid, id |-> id, type |-> "series-prefetch", priority |-> 1]

\* a send that puts the task in front of the buffered ones
SentFirst(q, t) == IF Len(q) < QueueCap THEN <<t>> \o q ELSE q

\* a send that buffers the task whatever the queue holds
SentUnbounded(q, t) == Append(q, t)

\* select { case queue <- t: ... default: ... } on an open channel
Sent(q, t) == IF Len(q) < QueueCap THEN Append(q, t) ELSE q

\* a receive that leaves the task in the channel
ReceivedKeep(q) == q

\* the channel after task, ok := <-queue
Received(q) == Tail(q)

\* the process runs: no unrecovered panic, and main has not returned
Alive == ~crashed /\ gpc # "done"

\* no request is being served
NoRequest == [pc |-> "idle"]

\* no pure function has been called yet
NoCall == [fn |-> "none"]

\* the links an indexer result can carry
Links == {"L1", "L2"}

\* no Scrape call is running and the hash cache holds no hash_<link> entry
NoScrape == [pc |-> "idle", hashCache |-> [l \in Links |-> ""]]

(* ------------------------------ actions -------------------------------- *)

Init ==
    /\ clock = 0
    /\ items = EmptyMap
    /\ dirty = FALSE
    /\ file = FileMissing
    /\ fresh = NotLoaded
    /\ lastWrite = [k \in Keys |-> NoWrite]
    /\ justSwept = FALSE
    /\ snapCurrent = FALSE
    /\ savers = [p \in Savers |-> IdleSaver]
    /\ gpc = "serving"
    /\ pending = [i \in Ids |-> NoRecord]
    /\ accPrev = [i \in DedupIds |-> [d \in Windows |-> NoRecord]]
    /\ accLast = [i \in DedupIds |-> [d \in Windows |-> NoRecord]]
    /\ queue = <<>>
    /\ queueClosed = FALSE
    /\ stopClosed = FALSE
    /\ wpc = [w \in Workers |-> "select"]
    /\ wtask = [w \in Workers |-> NoTask]
    /\ wg = bgWorkers
    /\ stopPc = "idle"
    /\ stopMode = "none"
    /\ userSend = {}
    /\ fpc = "idle"
    /\ fitem = 0
    /\ fleft = 0
    /\ fran = FALSE
    /\ crashed = FALSE
    /\ nextUid = 0
    /\ handedLog = <<>>
    /\ lastSend = "none"
    /\ hs = NoRequest
    /\ call = NoCall
    /\ scr = NoScrape

(* the cache store: what each operation does to the store's own state *)

\* the common part of every write: the new map, the dirty flag, the savers
Mutated(m, lw, svs) ==
    /\ items' = m
    /\ dirty' = TRUE
    /\ lastWrite' = lw
    /\ savers' = svs
    /\ fresh' = NotLoaded
    /\ justSwept' = FALSE
    /\ snapCurrent' = FALSE
    /\ UNCHANGED file

\* Cache.Set(k, v, ttl)
CacheSet(k, v, ttl) ==
    Mutated([items EXCEPT ![k] = SetItem(v, clock, ttl)],
            [lastWrite EXCEPT ![k] = [op |-> "set", value |-> v, at |-> clock, ttl |-> ttl]],
            Touched(savers, [items EXCEPT ![k] = SetItem(v, clock, ttl)]))

\* Cache.SetPermanent(k, v)
CacheSetPermanent(k, v) ==
    Mutated([items EXCEPT ![k] = PermItem(v)],
            [lastWrite EXCEPT ![k] = [op |-> "perm", value |-> v, at |-> clock, ttl |-> 0]],
            Touched(savers, [items EXCEPT ![k] = PermItem(v)]))

\* Cache.Delete(k)
CacheDelete(k) ==
    Mutated([items EXCEPT ![k] = NoItem],
            [lastWrite EXCEPT ![k] = [op |-> "del", value |-> "nil", at |-> clock, ttl |-> 0]],
            Touched(savers, [items EXCEPT ![k] = NoItem]))

\* Cache.Clear()
CacheClear ==
    Mutated(EmptyMap,
            [k \in Keys |-> [op |-> "del", value |-> "nil", at |-> clock, ttl |-> 0]],
            Detached(savers, items))

\* Cache.cleanup()
CacheCleanup ==
    /\ items' = Swept(items, clock)
    /\ dirty' = TRUE
    /\ savers' = IF Swept(items, clock) # items
                  THEN Touched(savers, Swept(items, clock)) ELSE savers
    /\ fresh' = NotLoaded
    /\ justSwept' = TRUE
    /\ snapCurrent' = FALSE
    /\ UNCHANGED <<file, lastWrite>>

\* time passes
Tick ==
    /\ Alive
    /\ clock < MaxTime
    /\ clock' = clock + 1
    /\ fresh' = NotLoaded
    /\ justSwept' = FALSE
    /\ UNCHANGED <<items, dirty, file, lastWrite, snapCurrent, savers, gpc>>
    /\ UNCHANGED dedupVars
    /\ UNCHANGED poolVars
    /\ UNCHANGED reqVars

\* a caller outside the pool (a request handler) calls Set
Set(k, v, ttl) ==
    /\ Alive
    /\ CacheSet(k, v, ttl)
    /\ UNCHANGED <<clock, gpc>>
    /\ UNCHANGED dedupVars
    /\ UNCHANGED poolVars
    /\ UNCHANGED reqVars

\* a caller outside the pool calls SetPermanent
SetPermanent(k, v) ==
    /\ Alive
    /\ CacheSetPermanent(k, v)
    /\ UNCHANGED <<clock, gpc>>
    /\ UNCHANGED dedupVars
    /\ UNCHANGED poolVars
    /\ UNCHANGED reqVars

\* Cache.Delete(k)
Delete(k) ==
    /\ Alive
    /\ CacheDelete(k)
    /\ UNCHANGED <<clock, gpc>>
    /\ UNCHANGED dedupVars
    /\ UNCHANGED poolVars
    /\ UNCHANGED reqVars

\* Cache.Clear()
Clear ==
    /\ Alive
    /\ CacheClear
    /\ UNCHANGED <<clock, gpc>>
    /\ UNCHANGED dedupVars
    /\ UNCHANGED poolVars
    /\ UNCHANGED reqVars

\* one tick of startCleanup
cleanup ==
    /\ Alive
    /\ CacheCleanup
    /\ UNCHANGED <<clock, gpc>>
    /\ UNCHANGED dedupVars
    /\ UNCHANGED poolVars
    /\ UNCHANGED reqVars

\* Cache.Flush() enters saveToFile and reads c.items under the read lock; the
\* lock is released before the file is created and written (SaveCreate,
\* SaveEncodeEnd)
Flush ==
    /\ Alive
    /\ savers["flush"].pc = "idle"
    /\ savers' = [savers EXCEPT !["flush"] = [IdleSaver EXCEPT !.pc = "create", !.ref = "live"]]
    /\ fresh' = NotLoaded
    /\ justSwept' = FALSE
    /\ snapCurrent' = FALSE
    /\ UNCHANGED <<clock, items, dirty, file, lastWrite, gpc>>
    /\ UNCHANGED dedupVars
    /\ UNCHANGED poolVars
    /\ UNCHANGED reqVars

\* a tick of startPeriodicSave that finds the store dirty: it reads the flag
\* under the lock, releases the lock and calls saveToFile
SaverTick ==
    /\ Alive
    /\ savers["periodic"].pc = "idle"
    /\ dirty
    /\ savers' = [savers EXCEPT !["periodic"] = [IdleSaver EXCEPT !.pc = "read"]]
    /\ snapCurrent' = FALSE
    /\ UNCHANGED <<items, dirty, file, fresh, lastWrite, justSwept>>
    /\ UNCHANGED <<clock, gpc>>
    /\ UNCHANGED dedupVars
    /\ UNCHANGED poolVars
    /\ UNCHANGED reqVars

\* saveToFile of the periodic saver reads c.items under the read lock
SaverRead ==
    /\ Alive
    /\ savers["periodic"].pc = "read"
    /\ savers' = [savers EXCEPT !["periodic"] = [IdleSaver EXCEPT !.pc = "create", !.ref = "live"]]
    /\ UNCHANGED <<items, dirty, file, fresh, lastWrite, justSwept, snapCurrent>>
    /\ UNCHANGED <<clock, gpc>>
    /\ UNCHANGED dedupVars
    /\ UNCHANGED poolVars
    /\ UNCHANGED reqVars

\* saveToFile: os.Create truncates the file, the encoder starts on the map
SaveCreate(p) ==
    /\ Alive
    /\ savers[p].pc = "create"
    /\ file' = FilePartial
    /\ savers' = [Overlapped(savers, p) EXCEPT
                    ![p] = [savers[p] EXCEPT !.pc = "encoding",
                                             !.begin = RefMap(savers[p], items),
                                             !.held = [k \in Keys |-> {RefMap(savers[p], items)[k]}],
                                             !.sizes = {Size(RefMap(savers[p], items))},
                                             !.raced = FALSE, !.shared = FALSE]]
    /\ snapCurrent' = FALSE
    /\ fresh' = NotLoaded
    /\ UNCHANGED <<items, dirty, lastWrite, justSwept>>
    /\ UNCHANGED <<clock, gpc>>
    /\ UNCHANGED dedupVars
    /\ UNCHANGED poolVars
    /\ UNCHANGED reqVars

\* saveToFile: Encode and Close end. A map written to while the encoder
\* iterated it gives a torn snapshot, a file that does not decode or the
\* runtime's fatal error; the periodic saver goes on to clear the dirty flag
\* when Encode returned nil
SaveEncodeEnd(p) ==
    /\ Alive
    /\ savers[p].pc = "encoding"
    /\ \/ /\ savers[p].raced
          /\ crashed' = TRUE
          /\ UNCHANGED <<file, savers, snapCurrent>>
       \/ /\ \E m \in SeenMaps(savers[p]) : \E out \in Outcomes(savers[p], m) :
                /\ file' = out
                /\ savers' = [Overlapped(savers, p) EXCEPT
                                ![p] = IF p = "periodic" /\ Encodable(m)
                                       THEN [IdleSaver EXCEPT !.pc = "clear"]
                                       ELSE IdleSaver]
                /\ snapCurrent' = (p = "flush" /\ out = Written(items))
          /\ UNCHANGED crashed
    /\ fresh' = NotLoaded
    /\ UNCHANGED <<items, dirty, lastWrite, justSwept>>
    /\ UNCHANGED <<clock, gpc>>
    /\ UNCHANGED dedupVars
    /\ UNCHANGED <<queue, queueClosed, stopClosed, wpc, wtask, wg, stopPc, stopMode,
                   userSend, fpc, fitem, fleft, fran, nextUid, handedLog, lastSend>>
    /\ UNCHANGED reqVars

\* startPeriodicSave after a save without error: c.dirty = false
SaverClearDirty ==
    /\ Alive
    /\ savers["periodic"].pc = "clear"
    /\ dirty' = FALSE
    /\ savers' = [savers EXCEPT !["periodic"] = IdleSaver]
    /\ UNCHANGED <<items, file, fresh, lastWrite, justSwept, snapCurrent>>
    /\ UNCHANGED <<clock, gpc>>
    /\ UNCHANGED dedupVars
    /\ UNCHANGED poolVars
    /\ UNCHANGED reqVars

\* NewCache() in a new process: loadFromFile into an empty store
NewCache ==
    /\ fresh' = [loaded |-> TRUE, items |-> Loaded(file)]
    /\ justSwept' = FALSE
    /\ UNCHANGED <<clock, items, dirty, file, lastWrite, snapCurrent, savers, gpc>>
    /\ UNCHANGED dedupVars
    /\ UNCHANGED poolVars
    /\ UNCHANGED reqVars

NextCache ==
    \/ Tick
    \/ \E k \in UserKeys, v \in TTLValues, ttl \in TTLs : Set(k, v, ttl)
    \/ \E k \in UserKeys, v \in PermValues : SetPermanent(k, v)
    \/ \E k \in UserKeys : Delete(k)
    \/ Clear
    \/ cleanup

SpecCache == Init /\ [][NextCache]_vars

\* writes that reach the map while one encoder iterates it, in the snapshot
\* specification
MaxRaced == 2

\* the entries an encoder can read beside those the map held when it started
HeldExtra(sv) ==
    Cardinality(UNION {{<<k, e>> : e \in sv.held[k]} : k \in Keys}) - Cardinality(Keys)

\* no encoder has been raced by MaxRaced writes yet
RaceRoom == \A p \in Savers : savers[p].pc = "encoding" => HeldExtra(savers[p]) < MaxRaced

\* the store while Flush writes the first snapshot and a new process loads
\* the file: callers write, delete and clear at any point of saveToFile, at
\* most MaxRaced times while the encoder runs, and entries are set with the
\* smallest ttl
NextSnapshot ==
    \/ Tick
    \/ \E k \in UserKeys, v \in TTLValues : RaceRoom /\ Set(k, v, 1)
    \/ \E k \in UserKeys, v \in PermValues : RaceRoom /\ SetPermanent(k, v)
    \/ \E k \in UserKeys : RaceRoom /\ Delete(k)
    \/ Clear
    \/ file = FileMissing /\ Flush
    \/ SaveCreate("flush")
    \/ SaveEncodeEnd("flush")
    \/ NewCache

SpecSnapshot == Init /\ [][NextSnapshot]_vars

(* the store across process restarts *)

\* the process is killed: every goroutine ends where it is, as after
\* gracefulShutdown; the file stays as it is, which is the truncated file when
\* a saver was past os.Create with nothing decodable written yet
Kill ==
    /\ Alive
    /\ gpc' = "done"
    /\ savers' = [p \in Savers |-> IdleSaver]
    /\ fresh' = NotLoaded
    /\ justSwept' = FALSE
    /\ snapCurrent' = FALSE
    /\ UNCHANGED <<clock, items, dirty, file, lastWrite>>
    /\ UNCHANGED dedupVars
    /\ UNCHANGED poolVars
    /\ UNCHANGED reqVars

\* the process is killed while a saver is inside Encode, with part of the
\* encoding of the map it iterates written
KilledInSave ==
    /\ Alive
    /\ \E p \in Savers :
          /\ savers[p].pc = "encoding"
          /\ \E m \in SeenMaps(savers[p]) : file' = FileTorn(m)
    /\ gpc' = "done"
    /\ savers' = [p \in Savers |-> IdleSaver]
    /\ fresh' = NotLoaded
    /\ justSwept' = FALSE
    /\ snapCurrent' = FALSE
    /\ UNCHANGED <<clock, items, dirty, lastWrite>>
    /\ UNCHANGED dedupVars
    /\ UNCHANGED poolVars
    /\ UNCHANGED reqVars

\* the next process starts: NewCache makes an empty map, loadFromFile replaces
\* it only when the file opens and decodes; the history records, per key, the
\* kind of file the store was created from
Startup ==
    /\ ~crashed
    /\ gpc = "done"
    /\ gpc' = "serving"
    /\ items' = Loaded(file)
    /\ dirty' = FALSE
    /\ fresh' = [loaded |-> TRUE, items |-> Loaded(file)]
    /\ lastWrite' = [k \in Keys |-> [op |-> "load", value |-> file.kind, at |-> clock, ttl |-> 0]]
    /\ justSwept' = FALSE
    /\ snapCurrent' = FALSE
    /\ savers' = [p \in Savers |-> IdleSaver]
    /\ UNCHANGED <<clock, file>>
    /\ UNCHANGED dedupVars
    /\ UNCHANGED poolVars
    /\ UNCHANGED reqVars

\* the store across kills and restarts: callers set indexer results and
\* delete at any point of Flush's saveToFile, the process is killed at any
\* point of it, and entries are set with the smallest ttl
NextStartup ==
    \/ Tick
    \/ \E k \in UserKeys : Set(k, "results", 1)
    \/ \E k \in UserKeys : Delete(k)
    \/ Flush
    \/ SaveCreate("flush")
    \/ SaveEncodeEnd("flush")
    \/ Kill
    \/ KilledInSave
    \/ Startup

SpecStartup == Init /\ [][NextStartup]_vars


(* --------------------------- deduplicator ------------------------------ *)

\* an hour passes (the deduplicator specification counts the clock in hours)
Advance ==
    /\ clock < MaxHours
    /\ clock' = clock + 1
    /\ UNCHANGED cacheVars
    /\ UNCHANGED <<gpc>>
    /\ UNCHANGED dedupVars
    /\ UNCHANGED poolVars
    /\ UNCHANGED reqVars

\* some goroutine calls ShouldQueue(id, d)
CallShouldQueue(id, d) ==
    /\ IF Accepts(pending, id, d, clock)
       THEN /\ pending' = Recorded(pending, id, clock)
            /\ accPrev' = [accPrev EXCEPT ![id][d] = accLast[id][d]]
            /\ accLast' = [accLast EXCEPT ![id][d] = clock]
       ELSE UNCHANGED dedupVars
    /\ UNCHANGED cacheVars
    /\ UNCHANGED <<clock, gpc>>
    /\ UNCHANGED poolVars
    /\ UNCHANGED reqVars

\* some goroutine calls Remove(id)
CallRemove(id) ==
    /\ pending' = Removed(pending, id)
    /\ accPrev' = [accPrev EXCEPT ![id] = [d \in Windows |-> NoRecord]]
    /\ accLast' = [accLast EXCEPT ![id] = [d \in Windows |-> NoRecord]]
    /\ UNCHANGED cacheVars
    /\ UNCHANGED <<clock, gpc>>
    /\ UNCHANGED poolVars
    /\ UNCHANGED reqVars

\* one tick of TaskDeduplicator.cleanupLoop
cleanupLoop ==
    /\ pending' = Expunged(pending, clock)
    /\ UNCHANGED <<accPrev, accLast>>
    /\ UNCHANGED cacheVars
    /\ UNCHANGED <<clock, gpc>>
    /\ UNCHANGED poolVars
    /\ UNCHANGED reqVars

NextDedup ==
    \/ Advance
    \/ \E id \in DedupIds, d \in Windows : CallShouldQueue(id, d)
    \/ \E id \in DedupIds : CallRemove(id)
    \/ cleanupLoop

SpecDedup == Init /\ [][NextDedup]_vars

(* ------------------------------ the pool ------------------------------- *)

\* UserBackgroundTask up to its select: ShouldQueue(metadata.ID, 24h)
UserShouldQueue(id) ==
    /\ Alive
    /\ id \notin userSend
    /\ IF Accepts(pending, id, DedupWindow, clock)
       THEN /\ pending' = Recorded(pending, id, clock)
            /\ userSend' = userSend \cup {id}
       ELSE UNCHANGED <<pending, userSend>>
    /\ UNCHANGED cacheVars
    /\ UNCHANGED <<clock, gpc, accPrev, accLast>>
    /\ UNCHANGED <<queue, queueClosed, stopClosed, wpc, wtask, wg, stopPc, stopMode,
                   fpc, fitem, fleft, fran, crashed, nextUid, handedLog, lastSend>>
    /\ UNCHANGED reqVars

\* the select of UserBackgroundTask: send, or default when the queue is full;
\* a send on the closed queue panics, and net/http recovers the handler's panic
UserSend(id) ==
    /\ Alive
    /\ id \in userSend
    /\ userSend' = userSend \ {id}
    /\ nextUid' = nextUid + 1
    /\ IF queueClosed
       THEN /\ lastSend' = "panic"
            /\ UNCHANGED queue
       ELSE /\ queue' = Sent(queue, UserTask(nextUid + 1, id))
            /\ lastSend' = IF Len(queue) < QueueCap THEN "queued" ELSE "full"
    /\ UNCHANGED cacheVars
    /\ UNCHANGED <<clock, gpc>>
    /\ UNCHANGED dedupVars
    /\ UNCHANGED <<queueClosed, stopClosed, wpc, wtask, wg, stopPc, stopMode,
                   fpc, fitem, fleft, fran, crashed, handedLog>>
    /\ UNCHANGED reqVars

\* backgroundWorker's select takes the queue case and gets a task
WorkerRecv(w) ==
    /\ Alive
    /\ wpc[w] = "select"
    /\ Len(queue) > 0
    /\ wtask' = [wtask EXCEPT ![w] = Head(queue)]
    /\ queue' = Received(queue)
    /\ wpc' = [wpc EXCEPT ![w] = "running"]
    /\ handedLog' = Append(handedLog, [uid |-> Head(queue).uid, worker |-> w])
    /\ UNCHANGED cacheVars
    /\ UNCHANGED <<clock, gpc>>
    /\ UNCHANGED dedupVars
    /\ UNCHANGED <<queueClosed, stopClosed, wg, stopPc, stopMode,
                   userSend, fpc, fitem, fleft, fran, crashed, nextUid, lastSend>>
    /\ UNCHANGED reqVars

\* backgroundWorker's select takes the queue case and gets ok = false
WorkerQueueClosed(w) ==
    /\ Alive
    /\ wpc[w] = "select"
    /\ Len(queue) = 0
    /\ queueClosed
    /\ wpc' = [wpc EXCEPT ![w] = "exited"]
    /\ wg' = wg - 1
    /\ UNCHANGED cacheVars
    /\ UNCHANGED <<clock, gpc>>
    /\ UNCHANGED dedupVars
    /\ UNCHANGED <<queue, queueClosed, stopClosed, wtask, stopPc, stopMode,
                   userSend, fpc, fitem, fleft, fran, crashed, nextUid, handedLog, lastSend>>
    /\ UNCHANGED reqVars

\* backgroundWorker's select takes the stopChan case
WorkerStop(w) ==
    /\ Alive
    /\ wpc[w] = "select"
    /\ stopClosed
    /\ wpc' = [wpc EXCEPT ![w] = "exited"]
    /\ wg' = wg - 1
    /\ UNCHANGED cacheVars
    /\ UNCHANGED <<clock, gpc>>
    /\ UNCHANGED dedupVars
    /\ UNCHANGED <<queue, queueClosed, stopClosed, wtask, stopPc, stopMode,
                   userSend, fpc, fitem, fleft, fran, crashed, nextUid, handedLog, lastSend>>
    /\ UNCHANGED reqVars

\* the handler returns: taskDeduplicator.Remove(task.ID), back to the select
TaskReturn(w) ==
    /\ Alive
    /\ wpc[w] = "running"
    /\ pending' = Removed(pending, wtask[w].id)
    /\ wpc' = [wpc EXCEPT ![w] = "select"]
    /\ wtask' = [wtask EXCEPT ![w] = NoTask]
    /\ UNCHANGED cacheVars
    /\ UNCHANGED <<clock, gpc, accPrev, accLast>>
    /\ UNCHANGED <<queue, queueClosed, stopClosed, wg, stopPc, stopMode,
                   userSend, fpc, fitem, fleft, fran, crashed, nextUid, handedLog, lastSend>>
    /\ UNCHANGED reqVars

\* Stop / StopAndWait: close(bk.stopChan)
StopBegin(mode) ==
    /\ Alive
    /\ stopPc = "idle"
    /\ stopClosed' = TRUE
    /\ stopPc' = "closeQueue"
    /\ stopMode' = mode
    /\ UNCHANGED cacheVars
    /\ UNCHANGED <<clock, gpc>>
    /\ UNCHANGED dedupVars
    /\ UNCHANGED <<queue, queueClosed, wpc, wtask, wg,
                   userSend, fpc, fitem, fleft, fran, crashed, nextUid, handedLog, lastSend>>
    /\ UNCHANGED reqVars

\* Stop / StopAndWait: close(bk.backgroundQueue)
StopCloseQueue ==
    /\ Alive
    /\ stopPc = "closeQueue"
    /\ queueClosed' = TRUE
    /\ stopPc' = "wait"
    /\ UNCHANGED cacheVars
    /\ UNCHANGED <<clock, gpc>>
    /\ UNCHANGED dedupVars
    /\ UNCHANGED <<queue, stopClosed, wpc, wtask, wg, stopMode,
                   userSend, fpc, fitem, fleft, fran, crashed, nextUid, handedLog, lastSend>>
    /\ UNCHANGED reqVars

\* bk.workersDone.Wait() returns
StopWaitDone ==
    /\ Alive
    /\ stopPc = "wait"
    /\ wg = 0
    /\ stopPc' = "done"
    /\ UNCHANGED cacheVars
    /\ UNCHANGED <<clock, gpc>>
    /\ UNCHANGED dedupVars
    /\ UNCHANGED <<queue, queueClosed, stopClosed, wpc, wtask, wg, stopMode,
                   userSend, fpc, fitem, fleft, fran, crashed, nextUid, handedLog, lastSend>>
    /\ UNCHANGED reqVars

\* Stop: the 30 s timer fires before the workers are done
StopTimeout ==
    /\ Alive
    /\ stopPc = "wait"
    /\ stopMode = "Stop"
    /\ wg > 0
    /\ stopPc' = "done"
    /\ UNCHANGED cacheVars
    /\ UNCHANGED <<clock, gpc>>
    /\ UNCHANGED dedupVars
    /\ UNCHANGED <<queue, queueClosed, stopClosed, wpc, wtask, wg, stopMode,
                   userSend, fpc, fitem, fleft, fran, crashed, nextUid, handedLog, lastSend>>
    /\ UNCHANGED reqVars

\* prefetchTrendingContent starts: the idle test, then the list of n items
FeederStart(n) ==
    /\ Alive
    /\ fpc = "idle"
    /\ fran' = TRUE
    /\ IF Len(queue) > IdleThreshold
       THEN UNCHANGED <<fpc, fleft>>
       ELSE /\ fpc' = "loop"
            /\ fleft' = IF n > MaxTrending THEN MaxTrending ELSE n
    /\ UNCHANGED cacheVars
    /\ UNCHANGED <<clock, gpc>>
    /\ UNCHANGED dedupVars
    /\ UNCHANGED <<queue, queueClosed, stopClosed, wpc, wtask, wg, stopPc, stopMode,
                   userSend, fitem, crashed, nextUid, handedLog, lastSend>>
    /\ UNCHANGED reqVars

\* the head of the feeder's loop: the next item and its ShouldQueue
FeederNext(id) ==
    /\ Alive
    /\ fpc = "loop"
    /\ IF fleft = 0
       THEN /\ fpc' = "idle"
            /\ UNCHANGED <<fleft, fitem, pending>>
       ELSE /\ fleft' = fleft - 1
            /\ IF Accepts(pending, id, DedupWindow, clock)
               THEN /\ pending' = Recorded(pending, id, clock)
                    /\ fitem' = id
                    /\ fpc' = "send"
               ELSE UNCHANGED <<fpc, fitem, pending>>
    /\ UNCHANGED cacheVars
    /\ UNCHANGED <<clock, gpc, accPrev, accLast>>
    /\ UNCHANGED <<queue, queueClosed, stopClosed, wpc, wtask, wg, stopPc, stopMode,
                   userSend, fran, crashed, nextUid, handedLog, lastSend>>
    /\ UNCHANGED reqVars

\* the feeder's select: send, or default when the queue is full; a send on the
\* closed queue panics in a goroutine nothing recovers. After the send of the
\* last item the run only sleeps and returns
FeederSend ==
    /\ Alive
    /\ fpc = "send"
    /\ nextUid' = nextUid + 1
    /\ IF queueClosed
       THEN /\ crashed' = TRUE
            /\ lastSend' = "panic"
            /\ UNCHANGED <<queue, fpc, fitem>>
       ELSE /\ queue' = Sent(queue, TrendingTask(nextUid + 1, fitem))
            /\ lastSend' = IF Len(queue) < QueueCap THEN "queued" ELSE "full"
            /\ fpc' = IF Len(queue) < QueueCap /\ fleft > 0 THEN "sleep" ELSE "idle"
            /\ fitem' = 0
            /\ UNCHANGED crashed
    /\ UNCHANGED cacheVars
    /\ UNCHANGED <<clock, gpc>>
    /\ UNCHANGED dedupVars
    /\ UNCHANGED <<queueClosed, stopClosed, wpc, wtask, wg, stopPc, stopMode,
                   userSend, fleft, fran, handedLog>>
    /\ UNCHANGED reqVars

\* after the 2 s sleep: the run ends when the queue holds more than 30
FeederCheck ==
    /\ Alive
    /\ fpc = "sleep"
    /\ fpc' = IF Len(queue) > FillThreshold THEN "idle" ELSE "loop"
    /\ UNCHANGED cacheVars
    /\ UNCHANGED <<clock, gpc>>
    /\ UNCHANGED dedupVars
    /\ UNCHANGED <<queue, queueClosed, stopClosed, wpc, wtask, wg, stopPc, stopMode,
                   userSend, fitem, fleft, fran, crashed, nextUid, handedLog, lastSend>>
    /\ UNCHANGED reqVars

\* the steps of the workers
WorkerStep(w) ==
    \/ WorkerRecv(w)
    \/ WorkerQueueClosed(w)
    \/ WorkerStop(w)
    \/ TaskReturn(w)

\* the steps of the caller of Stop / StopAndWait once it has begun
StopStep ==
    \/ StopCloseQueue
    \/ StopWaitDone
    \/ StopTimeout

NextPool ==
    \/ \E id \in PoolIds : nextUid + Cardinality(userSend) < MaxTasks /\ UserShouldQueue(id)
    \/ \E id \in PoolIds : UserSend(id)
    \/ \E w \in Workers : WorkerRecv(w)
    \/ \E w \in Workers : WorkerQueueClosed(w)
    \/ \E w \in Workers : WorkerStop(w)
    \/ \E w \in Workers : TaskReturn(w)
    \/ \E mode \in {"Stop", "StopAndWait"} : StopBegin(mode)
    \/ StopCloseQueue
    \/ StopWaitDone
    \/ StopTimeout
    \/ \E n \in 1..MaxFeed : nextUid < MaxTasks /\ FeederStart(n)
    \/ \E id \in PoolIds : FeederNext(id)
    \/ FeederSend
    \/ FeederCheck

SpecPool == Init /\ [][NextPool]_vars

\* the runtime schedules every goroutine that can run: the workers, the
\* caller of Stop and the feeder each take their next step
PoolFairness ==
    /\ \A w \in Workers : WF_vars(WorkerStep(w))
    /\ WF_vars(StopStep)
    /\ WF_vars(FeederSend \/ FeederCheck)

SpecPoolFair == SpecPool /\ PoolFairness

(* --------------------------- handler panics ---------------------------- *)

\* the handler a worker is executing panics: backgroundWorker defers only
\* workersDone.Done(), nothing recovers, and the runtime ends the process
TaskPanic(w) ==
    /\ Alive
    /\ wpc[w] = "running"
    /\ wpc' = [wpc EXCEPT ![w] = "panicked"]
    /\ crashed' = TRUE
    /\ UNCHANGED cacheVars
    /\ UNCHANGED <<clock, gpc>>
    /\ UNCHANGED dedupVars
    /\ UNCHANGED <<queue, queueClosed, stopClosed, wtask, wg, stopPc, stopMode,
                   userSend, fpc, fitem, fleft, fran, nextUid, handedLog, lastSend>>
    /\ UNCHANGED reqVars

NextPanic ==
    \/ NextPool
    \/ \E w \in Workers : TaskPanic(w)

SpecPanic == Init /\ [][NextPanic]_vars

(* --------------------------- the full queue ---------------------------- *)

\* the ids of the tasks on their way to a select
InFlightIds == userSend \cup (IF fpc = "send" THEN {fitem} ELSE {})

\* an id no earlier submission used: a work nobody has asked for yet
FreshId == IF InFlightIds = {} THEN nextUid + 1
           ELSE 1 + (CHOOSE i \in InFlightIds : \A j \in InFlightIds : j <= i)

HasFreshId == FreshId \in Ids

\* every submission asks for a new work, so that the queue can fill; the
\* queue stays open, and the feeder makes its start-up run with one item
NextQueue ==
    \/ HasFreshId /\ nextUid < MaxSubmits /\ userSend = {} /\ UserShouldQueue(FreshId)
    \/ \E id \in Ids : UserSend(id)
    \/ \E w \in Workers : WorkerRecv(w)
    \/ \E w \in Workers : TaskReturn(w)
    \/ ~fran /\ FeederStart(1)
    \/ HasFreshId /\ FeederNext(FreshId)
    \/ FeederSend

SpecQueue == Init /\ [][NextQueue]_vars

(* ------------------------- the pool as time passes --------------------- *)

\* minutes a handler runs at most: the context of prefetchSeriesSeasons
HandlerTimeout == 5

\* hours a task spends in the system at most: the tasks ahead of it in the
\* queue and the executing ones each end within the handler's timeout
MaxResidence == ((QueueCap + bgWorkers) * HandlerTimeout + 59) \div 60

\* the tasks queued or being executed
InSystem == {queue[i] : i \in 1..Len(queue)} \cup
            {wtask[w] : w \in {v \in Workers : wpc[v] = "running"}}

\* the ids on their way to the queue, queued or being executed
InSystemIds == InFlightIds \cup {t.id : t \in InSystem}

\* an hour passes while the producers and the workers keep up: no id whose
\* record tells when it was accepted stays in the system beyond MaxResidence
HourPasses ==
    /\ Alive
    /\ clock < MaxPoolHours
    /\ \A id \in InSystemIds :
           pending[id] = NoRecord \/ (clock + 1) - pending[id] <= MaxResidence
    /\ clock' = clock + 1
    /\ UNCHANGED cacheVars
    /\ UNCHANGED <<gpc>>
    /\ UNCHANGED dedupVars
    /\ UNCHANGED poolVars
    /\ UNCHANGED reqVars

NextHours ==
    \/ HourPasses
    \/ cleanupLoop
    \/ \E id \in PoolIds : nextUid + Cardinality(userSend) < MaxTasks /\ UserShouldQueue(id)
    \/ \E id \in PoolIds : UserSend(id)
    \/ \E w \in Workers : WorkerRecv(w)
    \/ \E w \in Workers : TaskReturn(w)
    \/ ~fran /\ FeederStart(1)
    \/ \E id \in PoolIds : FeederNext(id)
    \/ FeederSend

SpecHours == Init /\ [][NextHours]_vars

(* ------------------------ snapshots and shutdown ----------------------- *)

\* the handler a worker is executing stores a search result in the cache
TaskSet(w, k, v, ttl) ==
    /\ Alive
    /\ wpc[w] = "running"
    /\ CacheSet(k, v, ttl)
    /\ UNCHANGED <<clock, gpc>>
    /\ UNCHANGED dedupVars
    /\ UNCHANGED poolVars
    /\ UNCHANGED reqVars

\* gracefulShutdown: server.Shutdown has returned
ShutdownServer ==
    /\ Alive
    /\ gpc = "serving"
    /\ gpc' = "stopWorkers"
    /\ UNCHANGED cacheVars
    /\ UNCHANGED clock
    /\ UNCHANGED dedupVars
    /\ UNCHANGED poolVars
    /\ UNCHANGED reqVars

\* gracefulShutdown: addon.cache.Flush() is called once StopAndWait returned
ShutdownFlush ==
    /\ Alive
    /\ gpc = "stopWorkers"
    /\ stopPc = "done"
    /\ gpc' = "flush"
    /\ savers' = [savers EXCEPT !["flush"] = [IdleSaver EXCEPT !.pc = "create", !.ref = "live"]]
    /\ snapCurrent' = FALSE
    /\ UNCHANGED <<items, dirty, file, fresh, lastWrite, justSwept>>
    /\ UNCHANGED clock
    /\ UNCHANGED dedupVars
    /\ UNCHANGED poolVars
    /\ UNCHANGED reqVars

\* gracefulShutdown returns once its Flush has returned, and main with it
ShutdownReturn ==
    /\ Alive
    /\ gpc = "flush"
    /\ savers["flush"].pc = "idle"
    /\ gpc' = "done"
    /\ UNCHANGED cacheVars
    /\ UNCHANGED clock
    /\ UNCHANGED dedupVars
    /\ UNCHANGED poolVars
    /\ UNCHANGED reqVars

\* the program from serving to the return of gracefulShutdown: handlers
\* write the cache and submit tasks while the server serves, the worker's
\* task writes the cache, the sweeper and the periodic saver tick throughout
NextShutdown ==
    \/ \E k \in UserKeys, v \in ShutdownValues : gpc = "serving" /\ Set(k, v, MaxTTL)
    \/ \E w \in Workers, k \in UserKeys, v \in ShutdownValues : TaskSet(w, k, v, MaxTTL)
    \/ cleanup
    \/ SaverTick
    \/ SaverRead
    \/ \E p \in Savers : SaveCreate(p)
    \/ \E p \in Savers : SaveEncodeEnd(p)
    \/ SaverClearDirty
    \/ \E id \in PoolIds :
          gpc = "serving" /\ nextUid + Cardinality(userSend) < MaxShutdownTasks /\ UserShouldQueue(id)
    \/ \E id \in PoolIds : UserSend(id)
    \/ \E w \in Workers : WorkerRecv(w)
    \/ \E w \in Workers : WorkerQueueClosed(w)
    \/ \E w \in Workers : WorkerStop(w)
    \/ \E w \in Workers : TaskReturn(w)
    \/ ShutdownServer
    \/ gpc = "stopWorkers" /\ StopBegin("StopAndWait")
    \/ StopCloseQueue
    \/ StopWaitDone
    \/ ShutdownFlush
    \/ ShutdownReturn

SpecShutdown == Init /\ [][NextShutdown]_vars

(* ------------------------- main and the signal ------------------------- *)

\* SIGINT or SIGTERM arrives while main is inside server.ListenAndServe:
\* signal.Notify puts it into sigChan, which nothing reads yet
Signal ==
    /\ Alive
    /\ gpc = "serving"
    /\ gpc' = "signalled"
    /\ UNCHANGED cacheVars
    /\ UNCHANGED clock
    /\ UNCHANGED dedupVars
    /\ UNCHANGED poolVars
    /\ UNCHANGED reqVars

\* ListenAndServe returns while nobody has called server.Shutdown: the error
\* is not ErrServerClosed and log.Fatalf ends the process
ListenFails ==
    /\ Alive
    /\ gpc \in {"serving", "signalled"}
    /\ crashed' = TRUE
    /\ UNCHANGED cacheVars
    /\ UNCHANGED <<clock, gpc>>
    /\ UNCHANGED dedupVars
    /\ UNCHANGED <<queue, queueClosed, stopClosed, wpc, wtask, wg, stopPc, stopMode,
                   userSend, fpc, fitem, fleft, fran, nextUid, handedLog, lastSend>>
    /\ UNCHANGED reqVars

\* main from the call of ListenAndServe on: the receive from sigChan and
\* gracefulShutdown stand behind that call, which returns only after
\* server.Shutdown or with an error; meanwhile handlers write the cache and
\* submit tasks, the workers, the sweeper and the periodic saver run
NextMain ==
    \/ Signal
    \/ ListenFails
    \/ Tick
    \/ \E k \in UserKeys, v \in ShutdownValues : Set(k, v, MaxTTL)
    \/ cleanup
    \/ SaverTick
    \/ SaverRead
    \/ SaveCreate("periodic")
    \/ SaveEncodeEnd("periodic")
    \/ SaverClearDirty
    \/ \E id \in PoolIds :
          nextUid + Cardinality(userSend) < MaxShutdownTasks /\ UserShouldQueue(id)
    \/ \E id \in PoolIds : UserSend(id)
    \/ \E w \in Workers : WorkerRecv(w)
    \/ \E w \in Workers : TaskReturn(w)

SpecMain == Init /\ [][NextMain]_vars

\* every goroutine that can take a step is scheduled
SpecMainFair == SpecMain /\ WF_vars(NextMain)

(* ----------------- indexer adapter: JackettScraper.Scrape --------------- *)

\* the sequences of at most n elements of S
SeqsUpTo(S, n) == UNION {[1..k -> S] : k \in 0..n}

\* the most results the query variants of one call return together
MaxResults == 3

\* the details keys an indexer result can carry
DetailsKeys == {"d1", "d2"}

\* a JackettResult without a raw infohash: its details key, its link ("": none)
\* and what isSeasonPack says of its title for the requested season
Result(details, link, pack) ==
    [details |-> details, link |-> link, pack |-> pack, infoHash |-> <<>>, size |-> 0]

\* a JackettResult whose InfoHash field holds the bytes raw
RawResult(details, link, pack, raw) ==
    [details |-> details, link |-> link, pack |-> pack, infoHash |-> raw, size |-> 0]

\* a JackettResult of size bytes, without a raw infohash and with a title
\* that is no season pack
SizedResult(details, link, size) ==
    [details |-> details, link |-> link, pack |-> FALSE, infoHash |-> <<>>, size |-> size]

\* strings.ToLower on the bytes of a hash
LowerHash(h) == [i \in 1..Len(h) |-> IF 65 <= h[i] /\ h[i] <= 90 THEN h[i] + 32 ELSE h[i]]

\* processTorrent's last resort, when neither the cache nor the download gave
\* a hash: the lower-cased InfoHash of the result, or no hash
ProcFallback(r) ==
    IF r.infoHash # <<>>
    THEN [pc |-> "done", hash |-> LowerHash(r.infoHash), via |-> "raw"]
    ELSE [pc |-> "done", hash |-> "", via |-> "none"]

\* the hash the torrent behind a link has
HashOf(link) == IF link = "L1" THEN "h1" ELSE "h2"

\* the number of query variants Scrape builds for a request
NumQueries(mediaType, season, hasEpisode) == Len(Queries(mediaType, season, hasEpisode))

\* seen[details] with every key reported as new
IsSeenNever(seen, details) == FALSE

\* seen[details]
IsSeen(seen, details) == details \in seen

\* the inner loop of the collector over one list of results: acc holds seen,
\* allResults and the history count of the results dropped as seen
RECURSIVE Collected(_, _, _)
Collected(acc, list, isSeries) ==
    IF list = <<>> THEN acc
    ELSE LET r == Head(list)
             next == IF IsSeen(acc.seen, r.details)
                     THEN [acc EXCEPT !.dups = @ + 1]
                     ELSE IF isSeries /\ r.pack
                     THEN [acc EXCEPT !.seen = @ \cup {r.details}]
                     ELSE [acc EXCEPT !.seen = @ \cup {r.details},
                                      !.all = Append(@, r)]
         IN  Collected(next, Tail(list), isSeries)

\* a channel without a buffer
ChanCapNone(n) == 0

\* make(chan error, len(queries)): the buffer of errorsChan
ChanCap(n) == n

\* a goroutine of the processing stage before it has run
NoProc == [pc |-> "get", hash |-> "", via |-> "none"]

\* an activation of Scrape once the queries are built and one fetch goroutine
\* has been started for each, with the hash cache as the scraper holds it
ScrapeCall(hashCache, mediaType, season, hasEpisode) ==
    [pc |-> "fetch",
     hashCache |-> hashCache,
     isSeries |-> mediaType = "series",
     fetch |-> [q \in 1..NumQueries(mediaType, season, hasEpisode) |-> "running"],
     keys |-> [q \in 1..NumQueries(mediaType, season, hasEpisode) |->
                  JackettCacheKey(Queries(mediaType, season, hasEpisode)[q])],
     resultsChan |-> <<>>,
     errorsChan |-> 0,
     fetched |-> 0, seen |-> {}, all |-> <<>>, dups |-> 0,
     proc |-> <<>>,
     downloads |-> [l \in Links |-> 0],
     torrentsChan |-> <<>>,
     final |-> <<>>]

\* Scrape is entered: the queries are built and one fetch goroutine starts for each
ScrStart(mediaType, season, hasEpisode) ==
    /\ Alive
    /\ scr.pc = "idle"
    /\ scr' = ScrapeCall(scr.hashCache, mediaType, season, hasEpisode)
    /\ UNCHANGED <<clock, gpc, hs, call>>
    /\ UNCHANGED cacheVars
    /\ UNCHANGED dedupVars
    /\ UNCHANGED poolVars

\* fetchJackettResults of query q looks its key up in the search cache: a
\* live entry holding a result list is returned, anything else leads to the
\* request
ScrFetchGet(q) ==
    /\ Alive
    /\ scr.pc = "fetch"
    /\ q \in DOMAIN scr.fetch
    /\ scr.fetch[q] = "running"
    /\ LET got == Get(items, clock, scr.keys[q])
       IN  scr' = [scr EXCEPT !.fetch[q] = IF got.found /\ got.value = "results"
                                           THEN "send" ELSE "request"]
    /\ UNCHANGED <<clock, gpc, hs, call>>
    /\ UNCHANGED cacheVars
    /\ UNCHANGED dedupVars
    /\ UNCHANGED poolVars

\* the request of query q is answered with a list of results
ScrFetch(q) ==
    /\ Alive
    /\ scr.pc = "fetch"
    /\ q \in DOMAIN scr.fetch
    /\ scr.fetch[q] = "request"
    /\ scr' = [scr EXCEPT !.fetch[q] = IF SearchTTL > 0 THEN "set" ELSE "send"]
    /\ UNCHANGED <<clock, gpc, hs, call>>
    /\ UNCHANGED cacheVars
    /\ UNCHANGED dedupVars
    /\ UNCHANGED poolVars

\* fetchJackettResults of query q stores the answer:
\* searchCache.Set(cacheKey, results, searchTTL)
ScrFetchSet(q) ==
    /\ Alive
    /\ scr.pc = "fetch"
    /\ q \in DOMAIN scr.fetch
    /\ scr.fetch[q] = "set"
    /\ CacheSet(scr.keys[q], "results", SearchTTL)
    /\ scr' = [scr EXCEPT !.fetch[q] = "send"]
    /\ UNCHANGED <<clock, gpc, hs, call>>
    /\ UNCHANGED dedupVars
    /\ UNCHANGED poolVars

\* the fetch goroutine of query q sends its list on resultsChan, whose buffer
\* has room for every query, and ends.  The list it got from the cache or
\* from the indexer is named here, where it is first read by another
\* goroutine: the store of the model keeps the kind of a value, not its
\* contents (scr.fetched counts the results of the call, which the model
\* keeps within MaxResults)
ScrFetchSend(q, results) ==
    /\ Alive
    /\ scr.pc = "fetch"
    /\ q \in DOMAIN scr.fetch
    /\ scr.fetch[q] = "send"
    /\ scr.fetched + Len(results) <= MaxResults
    /\ scr' = [scr EXCEPT !.fetch[q] = "sent", !.resultsChan = Append(@, results),
                          !.fetched = @ + Len(results)]
    /\ UNCHANGED <<clock, gpc, hs, call>>
    /\ UNCHANGED cacheVars
    /\ UNCHANGED dedupVars
    /\ UNCHANGED poolVars

\* the request of query q fails and the goroutine sends the error on
\* errorsChan, which nobody receives from before resultsChan is closed: the
\* send ends when the buffer has room and blocks otherwise
ScrFetchFails(q) ==
    /\ Alive
    /\ scr.pc = "fetch"
    /\ q \in DOMAIN scr.fetch
    /\ scr.fetch[q] = "request"
    /\ scr' = IF scr.errorsChan < ChanCap(Len(scr.fetch))
              THEN [scr EXCEPT !.fetch[q] = "failed", !.errorsChan = @ + 1]
              ELSE [scr EXCEPT !.fetch[q] = "blocked"]
    /\ UNCHANGED <<clock, gpc, hs, call>>
    /\ UNCHANGED cacheVars
    /\ UNCHANGED dedupVars
    /\ UNCHANGED poolVars

\* the collector receives one list from resultsChan and merges it
ScrCollect ==
    /\ Alive
    /\ scr.pc = "fetch"
    /\ scr.resultsChan # <<>>
    /\ LET acc == Collected([seen |-> scr.seen, all |-> scr.all, dups |-> scr.dups],
                            Head(scr.resultsChan), scr.isSeries)
       IN  scr' = [scr EXCEPT !.resultsChan = Tail(@),
                              !.seen = acc.seen, !.all = acc.all, !.dups = acc.dups]
    /\ UNCHANGED <<clock, gpc, hs, call>>
    /\ UNCHANGED cacheVars
    /\ UNCHANGED dedupVars
    /\ UNCHANGED poolVars

\* every fetch has ended (wg.Wait returns) and resultsChan is closed and
\* drained; the errors are read and logged; one processing goroutine starts
\* for each element of allResults
ScrProcess ==
    /\ Alive
    /\ scr.pc = "fetch"
    /\ scr.resultsChan = <<>>
    /\ \A q \in DOMAIN scr.fetch : scr.fetch[q] \in {"sent", "failed"}
    /\ scr' = [scr EXCEPT !.pc = "process", !.errorsChan = 0,
                          !.proc = [i \in 1..Len(scr.all) |-> NoProc]]
    /\ UNCHANGED <<clock, gpc, hs, call>>
    /\ UNCHANGED cacheVars
    /\ UNCHANGED dedupVars
    /\ UNCHANGED poolVars

\* processTorrent of result i returns with outcome p: one torrent when it
\* has a hash, which the goroutine has yet to send on torrentsChan, and none
\* otherwise, which ends the goroutine
Processed(s, i, p) ==
    [s EXCEPT !.proc[i] = IF p.via # "none" THEN [p EXCEPT !.pc = "send"] ELSE p]

\* processTorrent of result i looks up hash_<link>: a hit gives the cached
\* hash, a miss (or a cached empty hash) leads to the download; no link:
\* neither, and the result's own InfoHash is the last resort
ProcGet(i) ==
    /\ Alive
    /\ scr.pc = "process"
    /\ i \in DOMAIN scr.proc
    /\ scr.proc[i].pc = "get"
    /\ LET link == scr.all[i].link
       IN  scr' = IF link = ""
                  THEN Processed(scr, i, ProcFallback(scr.all[i]))
                  ELSE IF scr.hashCache[link] # ""
                  THEN Processed(scr, i,
                            [pc |-> "done", hash |-> scr.hashCache[link], via |-> "cache"])
                  ELSE [scr EXCEPT !.proc[i].pc = "download"]
    /\ UNCHANGED <<clock, gpc, hs, call>>
    /\ UNCHANGED cacheVars
    /\ UNCHANGED dedupVars
    /\ UNCHANGED poolVars

\* DownloadTorrent of result i returns: the torrent file or a magnet hash
\* resolves the hash, anything else leaves the result's own InfoHash, if any
\* (scr.downloads counts the calls of DownloadTorrent per link)
ProcDownload(i, outcome) ==
    /\ Alive
    /\ scr.pc = "process"
    /\ i \in DOMAIN scr.proc
    /\ scr.proc[i].pc = "download"
    /\ LET link == scr.all[i].link
           counted == [scr EXCEPT !.downloads[link] = @ + 1]
       IN  scr' = IF outcome \in {"torrent", "magnet"}
                  THEN [counted EXCEPT !.proc[i] =
                            [pc |-> "store", hash |-> HashOf(link), via |-> "download"]]
                  ELSE Processed(counted, i, ProcFallback(scr.all[i]))
    /\ UNCHANGED <<clock, gpc, hs, call>>
    /\ UNCHANGED cacheVars
    /\ UNCHANGED dedupVars
    /\ UNCHANGED poolVars

\* hashCache.SetPermanent("hash_<link>", ...) of result i
ProcStore(i) ==
    /\ Alive
    /\ scr.pc = "process"
    /\ i \in DOMAIN scr.proc
    /\ scr.proc[i].pc = "store"
    /\ scr' = [scr EXCEPT !.proc[i].pc = "send",
                          !.hashCache[scr.all[i].link] = scr.proc[i].hash]
    /\ UNCHANGED <<clock, gpc, hs, call>>
    /\ UNCHANGED cacheVars
    /\ UNCHANGED dedupVars
    /\ UNCHANGED poolVars

\* the goroutine of result i sends its torrent on torrentsChan, whose buffer
\* has room for every result, and ends
ProcSend(i) ==
    /\ Alive
    /\ scr.pc = "process"
    /\ i \in DOMAIN scr.proc
    /\ scr.proc[i].pc = "send"
    /\ scr' = [scr EXCEPT !.proc[i].pc = "done",
                          !.torrentsChan = Append(@, [details |-> scr.all[i].details,
                                                      infoHash |-> scr.proc[i].hash,
                                                      size |-> scr.all[i].size])]
    /\ UNCHANGED <<clock, gpc, hs, call>>
    /\ UNCHANGED cacheVars
    /\ UNCHANGED dedupVars
    /\ UNCHANGED poolVars

\* every processing goroutine has ended and torrentsChan is closed: the
\* collecting loop has appended the torrents in the order they were sent
\* (each has an info hash), and Scrape returns them
ScrReturn ==
    /\ Alive
    /\ scr.pc = "process"
    /\ \A i \in DOMAIN scr.proc : scr.proc[i].pc = "done"
    /\ scr' = [scr EXCEPT !.pc = "done", !.final = scr.torrentsChan, !.torrentsChan = <<>>]
    /\ UNCHANGED <<clock, gpc, hs, call>>
    /\ UNCHANGED cacheVars
    /\ UNCHANGED dedupVars
    /\ UNCHANGED poolVars

\* the next Scrape call finds the hash cache as this one left it
ScrNext ==
    /\ Alive
    /\ scr.pc = "done"
    /\ scr' = [pc |-> "idle", hashCache |-> scr.hashCache]
    /\ UNCHANGED <<clock, gpc, hs, call>>
    /\ UNCHANGED cacheVars
    /\ UNCHANGED dedupVars
    /\ UNCHANGED poolVars

\* the results the indexer can return
Results == {Result("d1", "L1", FALSE), Result("d2", "L1", FALSE),
            Result("d2", "", FALSE), Result("d1", "L1", TRUE)}

\* the requests of the scrape specification: media type, season, episode
\* given (one query variant, two, none)
ScrapeRequests == {<<"movie", 0, FALSE>>, <<"series", 1, TRUE>>, <<"series", 1, FALSE>>}

\* the outcomes of DownloadTorrent and ExtractTorrentMetadata
DownloadOutcomes == {"torrent", "magnet", "none"}

NextScrape ==
    \/ \E r \in ScrapeRequests : ScrStart(r[1], r[2], r[3])
    \/ \E q \in 1..2 : ScrFetchGet(q)
    \/ \E q \in 1..2 : ScrFetch(q)
    \/ \E q \in 1..2 : ScrFetchSet(q)
    \/ \E q \in 1..2, rs \in SeqsUpTo(Results, MaxResults) : ScrFetchSend(q, rs)
    \/ \E q \in 1..2 : ScrFetchFails(q)
    \/ ScrCollect
    \/ ScrProcess
    \/ \E i \in 1..Cardinality(DetailsKeys) : ProcGet(i)
    \/ \E i \in 1..Cardinality(DetailsKeys), o \in DownloadOutcomes : ProcDownload(i, o)
    \/ \E i \in 1..Cardinality(DetailsKeys) : ProcStore(i)
    \/ \E i \in 1..Cardinality(DetailsKeys) : ProcSend(i)
    \/ ScrReturn
    \/ ScrNext

SpecScrape == Init /\ [][NextScrape]_vars

\* the results the indexer can return in the specification of the calls
\* with three query variants
FairResults == {Result("d1", "L1", FALSE), Result("d2", "", FALSE)}

\* the steps of one Scrape call: its goroutines and its collector loops
ScrStep ==
    \/ \E q \in 1..3 : ScrFetchGet(q)
    \/ \E q \in 1..3 : ScrFetch(q)
    \/ \E q \in 1..3 : ScrFetchSet(q)
    \/ \E q \in 1..3, rs \in SeqsUpTo(FairResults, MaxResults) : ScrFetchSend(q, rs)
    \/ \E q \in 1..3 : ScrFetchFails(q)
    \/ ScrCollect
    \/ ScrProcess
    \/ \E i \in 1..Cardinality(DetailsKeys) : ProcGet(i)
    \/ \E i \in 1..Cardinality(DetailsKeys), o \in DownloadOutcomes : ProcDownload(i, o)
    \/ \E i \in 1..Cardinality(DetailsKeys) : ProcStore(i)
    \/ \E i \in 1..Cardinality(DetailsKeys) : ProcSend(i)
    \/ ScrReturn

\* requests for an episode of the second season, which make three query
\* variants
NextScrapeFair ==
    \/ ScrStart("series", 2, TRUE)
    \/ \E q \in 1..3 : ScrFetchGet(q)
    \/ \E q \in 1..3 : ScrFetch(q)
    \/ \E q \in 1..3 : ScrFetchSet(q)
    \/ \E q \in 1..3, rs \in SeqsUpTo(FairResults, MaxResults) : ScrFetchSend(q, rs)
    \/ \E q \in 1..3 : ScrFetchFails(q)
    \/ ScrCollect
    \/ ScrProcess
    \/ \E i \in 1..Cardinality(DetailsKeys) : ProcGet(i)
    \/ \E i \in 1..Cardinality(DetailsKeys), o \in DownloadOutcomes : ProcDownload(i, o)
    \/ \E i \in 1..Cardinality(DetailsKeys) : ProcStore(i)
    \/ \E i \in 1..Cardinality(DetailsKeys) : ProcSend(i)
    \/ ScrReturn
    \/ ScrNext

\* the runtime schedules every goroutine that can run, and every upstream
\* call returns within the client's timeout
SpecScrapeFair == Init /\ [][NextScrapeFair]_vars /\ WF_vars(ScrStep)

(* ------------------ indexer adapter: normalizeInfoHash ----------------- *)

\* strings are sequences of bytes here; the bytes the model's inputs are made
\* of: space, "0", "A", "F", "a", "f", "g"
Space == 32

Bytes == {Space, 48, 65, 70, 97, 102, 103}

\* the length of an info hash in hexadecimal
HashLen == 40

\* the length of a hash that was hex-encoded once more
EncodedLen == 80

\* the bytes unicode.IsSpace accepts below 128
IsSpaceByte(b) == b \in {9, 10, 11, 12, 13, Space}

\* strings.TrimSpace on a string of bytes below 128
RECURSIVE TrimLeft(_)
TrimLeft(h) == IF h # <<>> /\ IsSpaceByte(Head(h)) THEN TrimLeft(Tail(h)) ELSE h

RECURSIVE TrimRight(_)
TrimRight(h) ==
    IF h # <<>> /\ IsSpaceByte(h[Len(h)]) THEN TrimRight(SubSeq(h, 1, Len(h) - 1)) ELSE h

TrimSpace(h) == TrimRight(TrimLeft(h))

\* the digits hex.DecodeString accepts: 0-9, a-f, A-F
IsHexDigit(b) == (48 <= b /\ b <= 57) \/ (97 <= b /\ b <= 102) \/ (65 <= b /\ b <= 70)

\* the value of a hexadecimal digit
Nibble(b) == IF b <= 57 THEN b - 48 ELSE IF b >= 97 THEN b - 87 ELSE b - 55

\* hex.DecodeString on a string of even length: an error on any other byte
DecodeFails(h) == \E i \in 1..Len(h) : ~IsHexDigit(h[i])

DecodeString(h) == [i \in 1..(Len(h) \div 2) |-> 16 * Nibble(h[2 * i - 1]) + Nibble(h[2 * i])]

\* hex.EncodeToString, lower-case digits
HexDigit(n) == IF n < 10 THEN 48 + n ELSE 87 + n

EncodeToString(h) ==
    [i \in 1..(2 * Len(h)) |->
        IF i % 2 = 1 THEN HexDigit(h[(i + 1) \div 2] \div 16) ELSE HexDigit(h[i \div 2] % 16)]

\* strings.ToLower on a string of bytes below 128
LowerBytes(h) == [i \in 1..Len(h) |-> IF 65 <= h[i] /\ h[i] <= 90 THEN h[i] + 32 ELSE h[i]]

\* normalizeInfoHash
normalizeInfoHash(hash) ==
    LET trimmed == TrimSpace(hash)
    IN  IF Len(trimmed) = EncodedLen /\ DecodeFails(trimmed) THEN <<>>
        ELSE LET decoded == IF Len(trimmed) = EncodedLen THEN DecodeString(trimmed)
                            ELSE trimmed
                 lower == LowerBytes(decoded)
             IN  IF Len(lower) # HashLen THEN <<>> ELSE lower

\* the string of n bytes that starts with first and goes on with fill
Fill(first, fill, n) == [i \in 1..n |-> IF i = 1 THEN first ELSE fill]

\* the inputs of the normalization specification, with or without blanks
\* around them: strings around the hash length, strings of the encoded length
\* made of "0" and "g", and 40-byte strings hex-encoded (every string the
\* model decodes holds bytes below 128 only)
HashBodies ==
    {Fill(first, fill, n) :
        first \in Bytes \ {Space}, fill \in Bytes \ {Space},
        n \in {HashLen - 1, HashLen, HashLen + 1}}
    \cup
    {Fill(first, fill, EncodedLen) : first \in {48, 103}, fill \in {48, 103}}
    \cup
    {EncodeToString(Fill(first, fill, HashLen)) : first \in Bytes, fill \in Bytes \ {Space}}

HashInputs ==
    {Fill(Space, Space, l) \o body \o Fill(Space, Space, r) :
        l \in {0, 1}, r \in {0, 1}, body \in HashBodies}

\* normalizeInfoHash is called on a result's hash; the history keeps the
\* result and the result of normalizing it again
CallNormalize(h) ==
    /\ Alive
    /\ call' = [fn |-> "normalizeInfoHash", arg |-> h,
                out |-> normalizeInfoHash(h),
                again |-> normalizeInfoHash(normalizeInfoHash(h))]
    /\ UNCHANGED <<clock, gpc, hs, scr>>
    /\ UNCHANGED cacheVars
    /\ UNCHANGED dedupVars
    /\ UNCHANGED poolVars

NextNormalize == \E h \in HashInputs : CallNormalize(h)

SpecNormalize == Init /\ [][NextNormalize]_vars

(* --------- indexer adapter: results that carry a raw infohash ---------- *)

\* the raw infohashes of the resolver specification: 40 upper-case
\* hexadecimal characters, and one character less
RawHashes == {Fill(65, 70, HashLen), Fill(65, 70, HashLen - 1)}

\* the results of the resolver specification: with a raw infohash and a link,
\* with a raw infohash only, with a link only
RawResults ==
    {RawResult("d1", "L1", FALSE, raw) : raw \in RawHashes} \cup
    {RawResult("d2", "", FALSE, raw) : raw \in RawHashes} \cup
    {Result("d2", "L1", FALSE)}

\* movie requests, whose one query variant returns every list of results
NextResolve ==
    \/ ScrStart("movie", 0, FALSE)
    \/ ScrFetchGet(1)
    \/ ScrFetch(1)
    \/ ScrFetchSet(1)
    \/ \E rs \in SeqsUpTo(RawResults, MaxResults) : ScrFetchSend(1, rs)
    \/ ScrFetchFails(1)
    \/ ScrCollect
    \/ ScrProcess
    \/ \E i \in 1..Cardinality(DetailsKeys) : ProcGet(i)
    \/ \E i \in 1..Cardinality(DetailsKeys), o \in DownloadOutcomes : ProcDownload(i, o)
    \/ \E i \in 1..Cardinality(DetailsKeys) : ProcStore(i)
    \/ \E i \in 1..Cardinality(DetailsKeys) : ProcSend(i)
    \/ ScrReturn
    \/ ScrNext

SpecResolve == Init /\ [][NextResolve]_vars

(* --------------- indexer adapter: shouldFilterSeriesResult ------------- *)

\* the episodes a request, a title or a file name can carry
MaxEpisode == 2

\* a title as the patterns read it: the season range of the first range
\* pattern that matches (<<0, 0>>: none), the season of the first season
\* pattern that matches (0: none), the season and the two ends the episode
\* range pattern captures (<<0, 0, 0>>: no match), the season and the
\* episode the episode pattern captures (<<0, 0>>: no match) and whether a
\* complete-series keyword stands in it
Title(range, tag, eps, ep, complete) ==
    [range |-> range, tag |-> tag, eps |-> eps, ep |-> ep, complete |-> complete]

\* isSeasonPack: a season range decides by whether it holds the requested
\* season, else a season tag decides by whether it is the requested season;
\* in-range and same-season give false, everything else gives true
isSeasonPack(title, season) ==
    IF title.range # <<0, 0>>
    THEN ~(season >= title.range[1] /\ season <= title.range[2])
    ELSE IF title.tag # 0
    THEN ~(title.tag = season)
    ELSE TRUE

\* isEpisodePack: an episode range decides by whether its season is the
\* requested one and it holds the requested episode, else an episode tag
\* decides by whether it is the requested episode of the requested season;
\* no episode pattern gives false
isEpisodePack(title, season, episode) ==
    IF title.eps # <<0, 0, 0>>
    THEN ~(title.eps[1] = season /\ episode >= title.eps[2] /\ episode <= title.eps[3])
    ELSE IF title.ep # <<0, 0>>
    THEN ~(title.ep[1] = season /\ title.ep[2] = episode)
    ELSE FALSE

\* isCompleteSeriesPack
isCompleteSeriesPack(title) == title.complete

\* shouldFilterSeriesResult: TRUE drops the result
shouldFilterSeriesResult(title, season, episode) ==
    IF isSeasonPack(title, season) THEN FALSE
    ELSE IF isEpisodePack(title, season, episode) THEN TRUE
    ELSE IF isCompleteSeriesPack(title) THEN FALSE
    ELSE FALSE

\* the seasons and episodes a title can name
TitleSeasons == 1..MaxSeason

TitleEpisodes == 1..MaxEpisode

\* the titles of the series filter specification
Titles ==
    {Title(range, tag, eps, ep, complete) :
        range \in {<<0, 0>>} \cup {r \in TitleSeasons \X TitleSeasons : r[1] <= r[2]},
        tag \in {0} \cup TitleSeasons,
        eps \in {<<0, 0, 0>>} \cup
                {r \in TitleSeasons \X TitleEpisodes \X TitleEpisodes : r[2] < r[3]},
        ep \in {<<0, 0>>} \cup (TitleSeasons \X TitleEpisodes),
        complete \in BOOLEAN}

\* the titles a string can give: where the episode pattern matches, a season
\* pattern matches there or before it (with the same or another season), and
\* where the episode range pattern matches, the episode pattern matches
\* there or before it
WellFormedTitles ==
    {t \in Titles : /\ (t.ep # <<0, 0>> => t.tag # 0)
                    /\ (t.eps # <<0, 0, 0>> => t.ep # <<0, 0>>)}

\* shouldFilterSeriesResult is called on a result for a series request
CallShouldFilter(title, season, episode) ==
    /\ Alive
    /\ call' = [fn |-> "shouldFilterSeriesResult", title |-> title,
                season |-> season, episode |-> episode,
                out |-> shouldFilterSeriesResult(title, season, episode)]
    /\ UNCHANGED <<clock, gpc, hs, scr>>
    /\ UNCHANGED cacheVars
    /\ UNCHANGED dedupVars
    /\ UNCHANGED poolVars

NextSeriesFilter ==
    \E t \in WellFormedTitles, s \in TitleSeasons, e \in TitleEpisodes :
        CallShouldFilter(t, s, e)

SpecSeriesFilter == Init /\ [][NextSeriesFilter]_vars

(* ------------------- stream requests: handleStream --------------------- *)

\* the info hashes the indexers and the debrid service can name
HashNames == {"h1", "h2"}

\* the most availability entries the debrid service returns
MaxCached == 2

\* the most files the listings of one request hold together
MaxFiles == 2

\* IsFileSizeValid: const minEpisodeSize
minEpisodeSize == 50 * 1024 * 1024

\* IsFileSizeValid: const minMovieSize
minMovieSize == 500 * 1024 * 1024

\* the keys of the videoExtensions map
videoExtensions == {".mp4", ".mkv", ".avi", ".mov", ".wmv", ".flv", ".webm", ".m4v",
                    ".mpg", ".mpeg", ".m2ts", ".ts", ".vob", ".ogv"}

\* strings.ToLower on the extensions the model's file names carry
ToLower(ext) == IF ext = ".MKV" THEN ".mkv" ELSE IF ext = ".TXT" THEN ".txt" ELSE ext

\* a file name as the filters read it: its extension, whether its last path
\* component holds an episode range, the season and episode its last component
\* spells in full (<<0, 0>>: none), the season its directory spells (0: none)
\* and the episode its last component spells alone (0: none)
FileName(ext, range, full, dir, ep) ==
    [ext |-> ext, range |-> range, full |-> full, dir |-> dir, ep |-> ep]

\* debrid.IsVideoFile
IsVideoFile(name) == ToLower(name.ext) \in videoExtensions

\* debrid.IsVideoFile without the extension table
IsVideoFileAny(name) == TRUE

\* debrid.IsFileSizeValid
IsFileSizeValid(size, isSeries) ==
    IF isSeries THEN size >= minEpisodeSize ELSE size >= minMovieSize

\* debrid.IsFileSizeValid with the boundary left out
IsFileSizeValidStrict(size, isSeries) ==
    IF isSeries THEN size > minEpisodeSize ELSE size > minMovieSize

\* debrid.IsEpisodeFile: an episode range rejects; else the full pattern in the
\* file name, or the season in the directory and the episode in the file name
IsEpisodeFile(name, season, episode) ==
    /\ ~name.range
    /\ \/ name.full = <<season, episode>>
       \/ name.dir = season /\ name.ep = episode

\* the three filters of the file loop of checkCacheAndBuildStreams
PassesFilters(f, isSeries, season, episode) ==
    /\ IsVideoFile(f.name)
    /\ IsFileSizeValid(f.size, isSeries)
    /\ isSeries => IsEpisodeFile(f.name, season, episode)

\* types.ScrapeResult: the fields the stream builder reads
Torrent(h, size) ==
    [infoHash |-> h, size |-> size, fileIndex |-> 0,
     title |-> FileName("", FALSE, <<0, 0>>, 0, 0)]

\* the torrent at position i carries a hash
FirstAtAny(ts, i) == ts[i].infoHash # ""

\* the torrent at position i is the first one carrying its non-empty hash
FirstAt(ts, i) ==
    /\ ts[i].infoHash # ""
    /\ \A j \in 1..(i - 1) : ts[j].infoHash # ts[i].infoHash

\* the hashes slice after the first n torrents: first occurrences, in order
RECURSIVE HashesUpTo(_, _)
HashesUpTo(ts, n) ==
    IF n = 0 THEN <<>>
    ELSE IF FirstAt(ts, n) THEN Append(HashesUpTo(ts, n - 1), ts[n].infoHash)
    ELSE HashesUpTo(ts, n - 1)

\* the hashes slice of checkCacheAndBuildStreams
UniqueHashes(ts) == HashesUpTo(ts, Len(ts))

\* hashMap[h]: the first torrent carrying the hash
HashMapGet(ts, h) == ts[CHOOSE i \in 1..Len(ts) : FirstAt(ts, i) /\ ts[i].infoHash = h]

\* hashMap once the loop over the torrents has ended
HashMapOf(ts) ==
    [h \in {ts[i].infoHash : i \in {k \in 1..Len(ts) : FirstAt(ts, k)}} |-> HashMapGet(ts, h)]

\* buildStream: the fallback stream of a torrent whose files could not be listed
buildStream(torrent) ==
    [url |-> "", infoHash |-> torrent.infoHash, fileIdx |-> torrent.fileIndex,
     videoSize |-> torrent.size, filename |-> torrent.title,
     binge |-> torrent.infoHash, from |-> torrent.fileIndex]

\* buildStreamWithURL: a direct link, or hash and file index when the link fails
buildStreamWithURL(torrent, f, linked) ==
    IF linked
    THEN [url |-> "link", infoHash |-> "", fileIdx |-> 0,
          videoSize |-> f.size, filename |-> f.name,
          binge |-> torrent.infoHash, from |-> f.index]
    ELSE [url |-> "", infoHash |-> torrent.infoHash, fileIdx |-> f.index,
          videoSize |-> f.size, filename |-> f.name,
          binge |-> torrent.infoHash, from |-> f.index]

\* a less function that orders by growing size
LessAscending(a, b) == a.videoSize < b.videoSize

\* the less function handed to sort.Slice
Less(a, b) == a.videoSize > b.videoSize

\* the sequence s without its element at position i
Without(s, i) == SubSeq(s, 1, i - 1) \o SubSeq(s, i + 1, Len(s))

\* the orders sort.Slice can leave: rearrangements in which no element is less
\* than one standing before it (sort.Slice is not stable: ties in any order)
RECURSIVE SortedOrders(_)
SortedOrders(s) ==
    IF Len(s) = 0 THEN {<<>>}
    ELSE UNION {{<<s[i]>> \o r : r \in SortedOrders(Without(s, i))} :
                i \in {k \in 1..Len(s) : \A j \in 1..Len(s) : ~Less(s[j], s[k])}}

\* the response written into hs: none yet, or the stream list with a nil error
NoResponse == [sent |-> FALSE, streams |-> <<>>]

Response(streams) == [sent |-> TRUE, streams |-> streams]

\* history: the file loop has not turned yet
NoFile == [seen |-> FALSE, hash |-> "", name |-> FileName("", FALSE, <<0, 0>>, 0, 0),
           size |-> 0, index |-> 0]

\* buildSearchQuery: the media type of the request's search; a series request
\* always carries its season and its episode
MediaType(isSeries) == IF isSeries THEN "series" ELSE "movie"

\* an activation of handleStream at its entry
Activation(isSeries, season, episode, id) ==
    [pc |-> "search", isSeries |-> isSeries, season |-> season, episode |-> episode,
     id |-> id,
     torrents |-> <<>>,
     hashes |-> <<>>, hashMap |-> <<>>, cached |-> <<>>, left |-> 0, index |-> 0,
     files |-> 0,
     streams |-> <<>>, built |-> <<>>, last |-> NoFile, failed |-> {},
     resp |-> NoResponse]

\* handleStream is entered with a request: the search query is built (the
\* metadata lookup gives the title SearchTitle for every work of the model),
\* searchTorrents starts the goroutine that calls Scrape, and Scrape starts
\* one fetch goroutine per query variant.  The steps of the call are those of
\* Scrape: the fetches, the collector and the hash resolutions
HsStart(isSeries, season, episode, id) ==
    /\ Alive
    /\ hs.pc = "idle"
    /\ scr.pc = "idle"
    /\ hs' = Activation(isSeries, season, episode, id)
    /\ scr' = ScrapeCall(scr.hashCache, MediaType(isSeries), season, TRUE)
    /\ UNCHANGED <<clock, gpc, call>>
    /\ UNCHANGED cacheVars
    /\ UNCHANGED dedupVars
    /\ UNCHANGED poolVars

\* the torrents Scrape returns, as types.ScrapeResult values
RECURSIVE Scraped(_)
Scraped(final) ==
    IF final = <<>> THEN <<>>
    ELSE <<Torrent(Head(final).infoHash, Head(final).size)>> \o Scraped(Tail(final))

\* Scrape has returned: its goroutine sends the torrents on resultsChan,
\* searchTorrents receives and returns them, and handleStream answers with the
\* empty list when there are none
HsSearch ==
    /\ Alive
    /\ hs.pc = "search"
    /\ scr.pc = "done"
    /\ hs' = IF Len(scr.final) = 0
             THEN [hs EXCEPT !.pc = "done", !.resp = Response(<<>>)]
             ELSE [hs EXCEPT !.pc = "hashes", !.torrents = Scraped(scr.final)]
    /\ scr' = [pc |-> "idle", hashCache |-> scr.hashCache]
    /\ UNCHANGED <<clock, gpc, call>>
    /\ UNCHANGED cacheVars
    /\ UNCHANGED dedupVars
    /\ UNCHANGED poolVars

\* checkCacheAndBuildStreams, the loop over the torrents: the hashes slice
\* and hashMap; no usable hash: empty streams, then the sort
Hashed(h) ==
    IF Len(UniqueHashes(h.torrents)) = 0
    THEN [h EXCEPT !.pc = "sort", !.torrents = <<>>]
    ELSE [h EXCEPT !.pc = "check", !.hashes = UniqueHashes(h.torrents),
                   !.hashMap = HashMapOf(h.torrents), !.torrents = <<>>]

\* checkCacheAndBuildStreams up to the call of CheckCache
HsHashes ==
    /\ Alive
    /\ hs.pc = "hashes"
    /\ hs' = Hashed(hs)
    /\ UNCHANGED <<clock, gpc, call, scr>>
    /\ UNCHANGED cacheVars
    /\ UNCHANGED dedupVars
    /\ UNCHANGED poolVars

\* Client.CheckCache up to the return of c.cache.Get(cacheKey): a live entry
\* that holds a []CacheCheck is returned as the answer cs (the store of the
\* model keeps the kind of a value, not its contents, so the list is named
\* here), anything else leads to the request
HsCheckGet(cs) ==
    /\ Alive
    /\ hs.pc = "check"
    /\ LET got == Get(items, clock, generateCacheKey(hs.hashes))
       IN  hs' = IF got.found /\ got.value = "cachecheck"
                 THEN [hs EXCEPT !.pc = "items", !.cached = cs]
                 ELSE [hs EXCEPT !.pc = "post"]
    /\ UNCHANGED <<clock, gpc, call, scr>>
    /\ UNCHANGED cacheVars
    /\ UNCHANGED dedupVars
    /\ UNCHANGED poolVars

\* CheckCache fails (c.post returns an error or a body that does not decode):
\* handleStream answers with the empty list and a nil error
HsCheckCacheFails ==
    /\ Alive
    /\ hs.pc = "post"
    /\ hs' = [hs EXCEPT !.pc = "done", !.resp = Response(<<>>), !.failed = @ \cup {"check"}]
    /\ UNCHANGED <<clock, gpc, call, scr>>
    /\ UNCHANGED cacheVars
    /\ UNCHANGED dedupVars
    /\ UNCHANGED poolVars

\* CheckCache: c.post returns the service's list of cached hashes
HsCheckCache(cs) ==
    /\ Alive
    /\ hs.pc = "post"
    /\ hs' = [hs EXCEPT !.pc = IF CheckTTL > 0 THEN "set" ELSE "items", !.cached = cs]
    /\ UNCHANGED <<clock, gpc, call, scr>>
    /\ UNCHANGED cacheVars
    /\ UNCHANGED dedupVars
    /\ UNCHANGED poolVars

\* CheckCache stores the answer, c.cache.Set(cacheKey, response.Data,
\* c.cacheTTL), and returns it
HsCheckSet ==
    /\ Alive
    /\ hs.pc = "set"
    /\ CacheSet(generateCacheKey(hs.hashes), "cachecheck", CheckTTL)
    /\ hs' = [hs EXCEPT !.pc = "items"]
    /\ UNCHANGED <<clock, gpc, call, scr>>
    /\ UNCHANGED dedupVars
    /\ UNCHANGED poolVars

\* the loop over cached (hs.cached holds the entries still to come): past the
\* end, on to the sort; an entry with no hash or a hash that was not asked for
\* is skipped
HsSkipItem ==
    /\ Alive
    /\ hs.pc = "items"
    /\ IF hs.cached = <<>> THEN TRUE
       ELSE IF Head(hs.cached) = "" THEN TRUE
       ELSE Head(hs.cached) \notin DOMAIN hs.hashMap
    /\ hs' = IF hs.cached = <<>>
             THEN [hs EXCEPT !.pc = "sort"]
             ELSE [hs EXCEPT !.cached = Tail(@)]
    /\ UNCHANGED <<clock, gpc, call, scr>>
    /\ UNCHANGED cacheVars
    /\ UNCHANGED dedupVars
    /\ UNCHANGED poolVars

\* the entry under the loop has a hash that was asked for
AtListedItem ==
    /\ hs.pc = "items"
    /\ IF hs.cached = <<>> THEN FALSE
       ELSE IF Head(hs.cached) = "" THEN FALSE
       ELSE Head(hs.cached) \in DOMAIN hs.hashMap

\* GetTorrentFiles fails: the fallback stream of the torrent is appended
HsListFails ==
    /\ Alive
    /\ AtListedItem
    /\ LET s == buildStream(hs.hashMap[Head(hs.cached)])
       IN  hs' = [hs EXCEPT !.cached = Tail(@),
                            !.streams = Append(@, s),
                            !.built = Append(@, s),
                            !.failed = @ \cup {"list"}]
    /\ UNCHANGED <<clock, gpc, call, scr>>
    /\ UNCHANGED cacheVars
    /\ UNCHANGED dedupVars
    /\ UNCHANGED poolVars

\* GetTorrentFiles returns a listing of n files (hs.files counts the files
\* the request has listed, which the model keeps within MaxFiles)
HsList(n) ==
    /\ Alive
    /\ AtListedItem
    /\ hs.files + n <= MaxFiles
    /\ hs' = IF n = 0
             THEN [hs EXCEPT !.cached = Tail(@)]
             ELSE [hs EXCEPT !.pc = "files", !.left = n, !.index = 0, !.files = @ + n]
    /\ UNCHANGED <<clock, gpc, call, scr>>
    /\ UNCHANGED cacheVars
    /\ UNCHANGED dedupVars
    /\ UNCHANGED poolVars

\* one turn of the loop over files: the file under it is named name and holds
\* size bytes; it passes the three filters or is skipped; linked tells whether
\* UnrestrictLink gave a link for it
HsFile(name, size, linked) ==
    /\ Alive
    /\ hs.pc = "files"
    /\ LET f == [name |-> name, size |-> size, index |-> hs.index]
           torrent == hs.hashMap[Head(hs.cached)]
           passes == PassesFilters(f, hs.isSeries, hs.season, hs.episode)
           s == buildStreamWithURL(torrent, f, linked)
           more == hs.left > 1
       IN  hs' = [hs EXCEPT !.pc = IF more THEN "files" ELSE "items",
                            !.cached = IF more THEN @ ELSE Tail(@),
                            !.left = @ - 1,
                            !.index = @ + 1,
                            !.streams = IF passes THEN Append(@, s) ELSE @,
                            !.built = IF passes THEN Append(@, s) ELSE @,
                            !.last = [seen |-> TRUE, hash |-> torrent.infoHash,
                                      name |-> name, size |-> size, index |-> hs.index],
                            !.failed = IF passes /\ ~linked THEN @ \cup {"link"} ELSE @]
    /\ UNCHANGED <<clock, gpc, call, scr>>
    /\ UNCHANGED cacheVars
    /\ UNCHANGED dedupVars
    /\ UNCHANGED poolVars

\* sort.Slice on the streams
HsSort ==
    /\ Alive
    /\ hs.pc = "sort"
    /\ \E sorted \in SortedOrders(hs.streams) :
           hs' = [hs EXCEPT !.pc = "background", !.streams = sorted, !.last = NoFile]
    /\ UNCHANGED <<clock, gpc, call, scr>>
    /\ UNCHANGED cacheVars
    /\ UNCHANGED dedupVars
    /\ UNCHANGED poolVars

\* UserBackgroundTask up to ShouldQueue.  For a series the metadata is
\* looked up: when GetMetadataFromTMDB fails it returns nil and metadata.ID
\* dereferences it, so handleStream panics and returns nothing; when
\* GetTVShowDetails fails nothing is queued and the sorted streams are
\* returned, as they are for a movie
HsBackground(meta) ==
    /\ Alive
    /\ hs.pc = "background"
    /\ hs' = IF ~hs.isSeries \/ meta = "nodetails"
             THEN [hs EXCEPT !.pc = "done", !.resp = Response(hs.streams)]
             ELSE IF meta = "missing"
             THEN [hs EXCEPT !.pc = "panicked", !.failed = @ \cup {"metadata"}]
             ELSE [hs EXCEPT !.pc = "shouldQueue"]
    /\ UNCHANGED <<clock, gpc, call, scr>>
    /\ UNCHANGED cacheVars
    /\ UNCHANGED dedupVars
    /\ UNCHANGED poolVars

\* UserBackgroundTask: ShouldQueue(metadata.ID, 24h) under the deduplicator's
\* lock; a refusal returns the sorted streams
HsShouldQueue ==
    /\ Alive
    /\ hs.pc = "shouldQueue"
    /\ IF Accepts(pending, hs.id, DedupWindow, clock)
       THEN /\ pending' = Recorded(pending, hs.id, clock)
            /\ hs' = [hs EXCEPT !.pc = "send"]
       ELSE /\ hs' = [hs EXCEPT !.pc = "done", !.resp = Response(hs.streams)]
            /\ UNCHANGED pending
    /\ UNCHANGED <<clock, gpc, call, scr, accPrev, accLast>>
    /\ UNCHANGED cacheVars
    /\ UNCHANGED poolVars

\* UserBackgroundTask: the select of the send, then the return of the sorted
\* streams; a send on the closed queue panics
HsSend ==
    /\ Alive
    /\ hs.pc = "send"
    /\ hs' = IF queueClosed
             THEN [hs EXCEPT !.pc = "panicked", !.failed = @ \cup {"metadata"}]
             ELSE [hs EXCEPT !.pc = "done", !.resp = Response(hs.streams)]
    /\ nextUid' = nextUid + 1
    /\ queue' = IF queueClosed THEN queue ELSE Sent(queue, UserTask(nextUid + 1, hs.id))
    /\ lastSend' = IF queueClosed THEN "panic"
                   ELSE IF Len(queue) < QueueCap THEN "queued" ELSE "full"
    /\ UNCHANGED <<clock, gpc, call, scr>>
    /\ UNCHANGED cacheVars
    /\ UNCHANGED dedupVars
    /\ UNCHANGED <<queueClosed, stopClosed, wpc, wtask, wg, stopPc, stopMode,
                   userSend, fpc, fitem, fleft, fran, crashed, handedLog>>

\* the handler has returned or net/http has recovered its panic: the next request
HsReturn ==
    /\ Alive
    /\ hs.pc \in {"done", "panicked"}
    /\ hs' = NoRequest
    /\ UNCHANGED <<clock, gpc, call, scr>>
    /\ UNCHANGED cacheVars
    /\ UNCHANGED dedupVars
    /\ UNCHANGED poolVars

\* the sizes the model's torrents and files hold: each floor and the byte under it
Sizes == {minEpisodeSize - 1, minEpisodeSize, minMovieSize - 1, minMovieSize}

\* the episode every request of the model asks for
ReqEpisode == 1

\* the files of the stream specification: the requested episode as a video
\* that passes the size floor of either request, and a text file
StreamFiles == {[name |-> FileName(".mkv", FALSE, <<ReqSeason, ReqEpisode>>, 0, 0),
                 size |-> minMovieSize],
                [name |-> FileName(".txt", FALSE, <<0, 0>>, 0, 0),
                 size |-> minMovieSize]}

\* the outcomes of the metadata lookups of UserBackgroundTask
MetaOutcomes == {"found", "missing", "nodetails"}

\* the answers of the indexer to one query in the stream specification: no
\* result, one whose link resolves to h1, one without a link, or two of
\* different sizes that share the link
StreamLists ==
    {<<>>,
     <<SizedResult("d1", "L1", minMovieSize)>>,
     <<SizedResult("d2", "", minEpisodeSize)>>,
     <<SizedResult("d1", "L1", minMovieSize), SizedResult("d2", "L1", minEpisodeSize)>>}

\* the steps of the Scrape call of a request, whose fetches return the lists
\* of Lists or fail
ScrapeSteps(Lists) ==
    \/ \E q \in 1..MaxQueries : ScrFetchGet(q)
    \/ \E q \in 1..MaxQueries : ScrFetch(q)
    \/ \E q \in 1..MaxQueries : ScrFetchSet(q)
    \/ \E q \in 1..MaxQueries, rs \in Lists : ScrFetchSend(q, rs)
    \/ \E q \in 1..MaxQueries : ScrFetchFails(q)
    \/ ScrCollect
    \/ ScrProcess
    \/ \E i \in 1..MaxResults : ProcGet(i)
    \/ \E i \in 1..MaxResults, o \in DownloadOutcomes : ProcDownload(i, o)
    \/ \E i \in 1..MaxResults : ProcStore(i)
    \/ \E i \in 1..MaxResults : ProcSend(i)
    \/ ScrReturn

\* one request after the other, a movie or an episode of a series: each
\* query of its search is answered from the search cache or by the indexer,
\* or fails
NextStream ==
    \/ \E isSeries \in BOOLEAN : HsStart(isSeries, ReqSeason, ReqEpisode, 1)
    \/ ScrapeSteps(StreamLists)
    \/ HsSearch
    \/ HsHashes
    \/ \E cs \in SeqsUpTo(HashNames \cup {""}, MaxCached) : HsCheckGet(cs)
    \/ HsCheckCacheFails
    \/ \E cs \in SeqsUpTo(HashNames \cup {""}, MaxCached) : HsCheckCache(cs)
    \/ HsCheckSet
    \/ HsSkipItem
    \/ HsListFails
    \/ \E n \in 0..MaxFiles : HsList(n)
    \/ \E f \in StreamFiles, linked \in BOOLEAN : HsFile(f.name, f.size, linked)
    \/ HsSort
    \/ \E meta \in MetaOutcomes : HsBackground(meta)
    \/ HsShouldQueue
    \/ HsSend
    \/ HsReturn

SpecStream == Init /\ [][NextStream]_vars

(* the file filters of a request, over every kind of file name *)

\* the season and episode a file name can spell in full
FullTags == {<<0, 0>>} \cup ((1..MaxSeason) \X (1..MaxEpisode))

\* the file names of the filter specification: a full tag and nothing else
\* under each extension, or a season directory and a lone episode, each with
\* or without an episode range
FilterNames ==
    {FileName(ext, range, full, 0, 0) :
        ext \in {".mkv", ".MKV", ".txt"}, range \in BOOLEAN, full \in FullTags}
    \cup
    {FileName(".mkv", range, <<0, 0>>, dir, ep) :
        range \in BOOLEAN, dir \in 0..MaxSeason, ep \in 0..MaxEpisode}

\* the requests of the filter specification: a movie, or an episode of the
\* requested season of a series (the file names carry every season)
FilterRequests ==
    {[isSeries |-> FALSE, season |-> 0, episode |-> 0]}
    \cup
    {[isSeries |-> TRUE, season |-> ReqSeason, episode |-> e] : e \in 1..MaxEpisode}

\* each query of a search of the filter specification is answered with one
\* result, or fails
NextFilter ==
    \/ \E r \in FilterRequests : HsStart(r.isSeries, r.season, r.episode, 1)
    \/ ScrapeSteps({<<SizedResult("d1", "L1", minMovieSize)>>})
    \/ HsSearch
    \/ HsHashes
    \/ \E cs \in {<<"h1">>, <<"h1", "h1">>} : HsCheckGet(cs)
    \/ \E cs \in {<<"h1">>, <<"h1", "h1">>} : HsCheckCache(cs)
    \/ HsCheckSet
    \/ HsSkipItem
    \/ \E n \in 1..MaxFiles : HsList(n)
    \/ \E name \in FilterNames, size \in Sizes, linked \in BOOLEAN : HsFile(name, size, linked)
    \/ HsSort
    \/ HsBackground("nodetails")
    \/ HsReturn

SpecFilter == Init /\ [][NextFilter]_vars

(* ------------------ requests that submit background tasks -------------- *)

\* the background tasks of other requests fill the queue (UserShouldQueue and
\* UserSend, one at a time), and the requests whose handler is followed step
\* by step arrive while the queue is full or one short of it, so that tasks
\* are both queued and dropped within MaxSubmits submissions: one request
\* after the other, a movie or an episode of the first season of a series,
\* for a work nobody asked for yet or for the first work again.  Each query
\* of the search is answered with no result or with one, or fails; the
\* availability check fails or reports nothing as cached; the worker takes
\* and completes tasks meanwhile, MaxTasks of them over a run
NextSubmit ==
    \/ HasFreshId /\ nextUid < MaxSubmits /\ userSend = {} /\ UserShouldQueue(FreshId)
    \/ \E id \in Ids : UserSend(id)
    \/ \E isSeries \in BOOLEAN, id \in {1, FreshId} \cap Ids :
           /\ nextUid < MaxSubmits
           /\ Len(queue) >= QueueCap - 1
           /\ HsStart(isSeries, FirstSeason, ReqEpisode, id)
    \/ ScrapeSteps({<<>>, <<SizedResult("d1", "L1", minEpisodeSize)>>})
    \/ HsSearch
    \/ HsHashes
    \/ HsCheckGet(<<>>)
    \/ HsCheckCacheFails
    \/ HsCheckCache(<<>>)
    \/ HsCheckSet
    \/ HsSkipItem
    \/ HsSort
    \/ \E meta \in MetaOutcomes : HsBackground(meta)
    \/ HsShouldQueue
    \/ HsSend
    \/ HsReturn
    \/ \E w \in Workers : Len(handedLog) < MaxTasks /\ WorkerRecv(w)
    \/ \E w \in Workers : TaskReturn(w)

SpecSubmit == Init /\ [][NextSubmit]_vars

(* -------------------- the hash list of the bulk check ------------------ *)

\* the answers of the indexer to one query in the hash list specification:
\* no result, one whose link resolves to h1, one without a link, or three of
\* which the first and the last share a link
HashListResults ==
    {<<>>,
     <<SizedResult("d1", "L1", minMovieSize)>>,
     <<SizedResult("d2", "", minEpisodeSize)>>,
     <<SizedResult("d1", "L1", minMovieSize), SizedResult("d3", "L2", minEpisodeSize),
       SizedResult("d2", "L1", minEpisodeSize)>>}

\* HsHashes with the torrents kept as the input of checkCacheAndBuildStreams
HsHashesOf ==
    /\ Alive
    /\ hs.pc = "hashes"
    /\ hs' = Hashed(hs)
    /\ call' = [fn |-> "checkCacheAndBuildStreams", arg |-> hs.torrents]
    /\ UNCHANGED <<clock, gpc, scr>>
    /\ UNCHANGED cacheVars
    /\ UNCHANGED dedupVars
    /\ UNCHANGED poolVars

\* movie and series requests whose queries are answered or fail; the service
\* reports nothing as cached, or the check fails
NextHashList ==
    \/ \E isSeries \in BOOLEAN : HsStart(isSeries, ReqSeason, ReqEpisode, 1)
    \/ ScrapeSteps(HashListResults)
    \/ HsSearch
    \/ HsHashesOf
    \/ HsCheckGet(<<>>)
    \/ HsCheckCacheFails
    \/ HsCheckCache(<<>>)
    \/ HsCheckSet
    \/ HsSkipItem
    \/ HsSort
    \/ HsBackground("nodetails")
    \/ HsReturn

SpecHashList == Init /\ [][NextHashList]_vars

(* ------------------ debrid client: the availability check -------------- *)

\* the goroutines that call CheckCache: two requests at a time
CheckCallers == {1, 2}

\* a caller that is not inside CheckCache
NoCheck == [pc |-> "idle"]

\* where each caller stands in CheckCache
Checks == IF call.fn = "CheckCache" THEN call.by ELSE [c \in CheckCallers |-> NoCheck]

\* Client.CheckCache up to the return of c.cache.Get(cacheKey): a live entry
\* that holds a []CacheCheck is returned, anything else leads to the request;
\* the history keeps the lists that had a live entry at that instant
CheckGet(c, hashes) ==
    /\ Alive
    /\ Checks[c].pc \in {"idle", "done"}
    /\ LET key == generateCacheKey(hashes)
           got == Get(items, clock, key)
           hit == got.found /\ got.value = "cachecheck"
       IN  call' = [fn |-> "CheckCache",
                    by |-> [Checks EXCEPT ![c] =
                               [pc |-> IF hit THEN "done" ELSE "post",
                                hashes |-> hashes, key |-> key, hit |-> hit,
                                live |-> {g \in HashLists :
                                             Get(items, clock, generateCacheKey(g)).found},
                                posted |-> FALSE, stored |-> FALSE]]]
    /\ UNCHANGED <<clock, gpc, hs, scr>>
    /\ UNCHANGED cacheVars
    /\ UNCHANGED dedupVars
    /\ UNCHANGED poolVars

\* Client.CheckCache: c.post returns; an error or a body that does not
\* decode ends the call
CheckPost(c, answered) ==
    /\ Alive
    /\ Checks[c].pc = "post"
    /\ call' = [call EXCEPT !.by[c].pc = IF answered THEN "set" ELSE "done",
                            !.by[c].posted = TRUE]
    /\ UNCHANGED <<clock, gpc, hs, scr>>
    /\ UNCHANGED cacheVars
    /\ UNCHANGED dedupVars
    /\ UNCHANGED poolVars

\* Client.CheckCache: c.cache.Set(cacheKey, response.Data, c.cacheTTL), then
\* the return of the answer
CheckSet(c) ==
    /\ Alive
    /\ Checks[c].pc = "set"
    /\ CacheSet(Checks[c].key, "cachecheck", CheckTTL)
    /\ call' = [call EXCEPT !.by[c].pc = "done", !.by[c].stored = TRUE]
    /\ UNCHANGED <<clock, gpc, hs, scr>>
    /\ UNCHANGED dedupVars
    /\ UNCHANGED poolVars

\* requests check hash lists while time passes and the sweeper runs
NextCheckCache ==
    \/ Tick
    \/ cleanup
    \/ \E c \in CheckCallers, hashes \in HashLists : CheckGet(c, hashes)
    \/ \E c \in CheckCallers, answered \in BOOLEAN : CheckPost(c, answered)
    \/ \E c \in CheckCallers : CheckSet(c)

SpecCheckCache == Init /\ [][NextCheckCache]_vars


(* ----------------------- decimal numbers in text ----------------------- *)

IsDigit(b) == 48 <= b /\ b <= 57

\* the value of a run of decimal digits
RECURSIVE DigitsValue(_)
DigitsValue(s) ==
    IF Len(s) = 0 THEN 0
    ELSE 10 * DigitsValue(SubSeq(s, 1, Len(s) - 1)) + (s[Len(s)] - 48)

\* strconv.Itoa
RECURSIVE Digits(_)
Digits(n) == IF n < 10 THEN <<48 + n>> ELSE Append(Digits(n \div 10), 48 + (n % 10))

Itoa(n) == IF n < 0 THEN <<45>> \o Digits(0 - n) ELSE Digits(n)

(* ------------------- indexer adapter: the title matcher ---------------- *)

\* strings.Contains on strings of bytes
Contains(s, sub) ==
    \E p \in 0..(Len(s) - Len(sub)) : SubSeq(s, p + 1, p + Len(sub)) = sub

\* the run of decimal digits a string starts with
RECURSIVE LeadingDigits(_)
LeadingDigits(s) ==
    IF Len(s) = 0 \/ ~IsDigit(s[1]) THEN <<>>
    ELSE <<s[1]>> \o LeadingDigits(Tail(s))

\* parseInt of a word of letters and digits: fmt.Sscanf with %d reads the
\* digits the word starts with, and the result stays 0 when there is none
parseInt(s) == DigitsValue(LeadingDigits(s))

\* strings.Join(words, " ")
RECURSIVE JoinWords(_)
JoinWords(words) ==
    IF Len(words) = 0 THEN <<>>
    ELSE IF Len(words) = 1 THEN words[1]
    ELSE words[1] \o <<Space>> \o JoinWords(Tail(words))

\* the condition under which wordMatchScore counts the search word sw as
\* matched by the torrent word tw: equal, one contains the other, or sw is the
\* year and sw itself contains the year after and the year before
WordMatches(sw, tw, year) ==
    \/ sw = tw
    \/ Contains(tw, sw)
    \/ Contains(sw, tw)
    \/ /\ sw = Itoa(year)
       /\ Contains(sw, Itoa(year + 1))
       /\ Contains(sw, Itoa(year - 1))

\* the search words for which the inner loop of wordMatchScore finds a
\* torrent word and counts one
MatchedWords(search, torrent) ==
    LET year == parseInt(search[Len(search)])
    IN  {i \in 1..Len(search) :
            \E j \in 1..Len(torrent) : WordMatches(search[i], torrent[j], year)}

\* wordMatchScore on the words of the two normalized titles (Matches reaches
\* it with one search word at least: an empty search is contained in every
\* title)
wordMatchScore(search, torrent) ==
    (Cardinality(MatchedWords(search, torrent)) * 100) \div Len(search)

\* the pattern of regexMatch from word k on matches the title t at position
\* pos: the words in their order, with any number of blanks between two of
\* them (the titles of the model have no other separator)
RECURSIVE PatternAt(_, _, _, _)
PatternAt(words, k, t, pos) ==
    LET after == pos + Len(words[k])
    IN  /\ after - 1 <= Len(t)
        /\ SubSeq(t, pos, after - 1) = words[k]
        /\ \/ k = Len(words)
           \/ PatternAt(words, k + 1, t, after)
           \/ after <= Len(t) /\ t[after] = Space /\ PatternAt(words, k + 1, t, after + 1)

\* regexMatch: no search word gives false, else the pattern is looked for
\* anywhere in the torrent title
regexMatch(search, title) ==
    IF Len(search) = 0 THEN FALSE
    ELSE \E pos \in 1..Len(title) : PatternAt(search, 1, title, pos)

\* strategy 1 of Matches: the normalized titles are equal or the torrent's
\* contains the search's
NormalizedMatch(search, torrent) ==
    JoinWords(search) = JoinWords(torrent) \/ Contains(JoinWords(torrent), JoinWords(search))

\* Matches on two titles of lower-case words that normalize leaves as they
\* are, given by their words
Matches(minScore, search, torrent) ==
    IF NormalizedMatch(search, torrent) THEN TRUE
    ELSE IF wordMatchScore(search, torrent) >= minScore THEN TRUE
    ELSE regexMatch(search, JoinWords(torrent))

\* the most words of a title of the matcher specification
MaxTitleWords == 2

\* the words of the titles: "5", "4", "6", "b", "45" and "5b"
MatchWords == {<<53>>, <<52>>, <<54>>, <<98>>, <<52, 53>>, <<53, 98>>}

MatchTitles == SeqsUpTo(MatchWords, MaxTitleWords)

\* the minimum scores a matcher is built with: 0 stands for the default
MinScores == {0, 50, 100}

\* NewTitleMatcher
NewTitleMatcher(minScore) == IF minScore = 0 THEN 70 ELSE minScore

\* Matches is called on a matcher; the history keeps whether word scoring was
\* reached and, if so, the words it counted and its score
CallMatches(minScore, search, torrent) ==
    /\ Alive
    /\ call = NoCall
    /\ LET reached == ~NormalizedMatch(search, torrent)
       IN  call' = [fn |-> "Matches", minScore |-> NewTitleMatcher(minScore),
                    search |-> search, torrent |-> torrent,
                    reached |-> reached,
                    matched |-> IF reached THEN MatchedWords(search, torrent) ELSE {},
                    score |-> IF reached THEN wordMatchScore(search, torrent) ELSE 0,
                    out |-> Matches(NewTitleMatcher(minScore), search, torrent)]
    /\ UNCHANGED <<clock, gpc, hs, scr>>
    /\ UNCHANGED cacheVars
    /\ UNCHANGED dedupVars
    /\ UNCHANGED poolVars

NextMatches ==
    \E m \in MinScores, search \in MatchTitles, torrent \in MatchTitles :
        CallMatches(m, search, torrent)

SpecMatches == Init /\ [][NextMatches]_vars


(* ------------------------- cache store claims -------------------------- *)


\* the expiry instant of the last Set applied to key k
SetExpiry(k) == lastWrite[k].at + lastWrite[k].ttl

\* C1: Get(k) returns (v, true) only if k's current item is permanent or the
\* current time is not after its expiry instant, whatever sequence of Set,
\* SetPermanent, Delete, Clear, sweep and clock advances came before; an
\* expired item the sweeper has not removed yet is reported as not found.
C1_GetOnlyLive ==
    \A k \in Keys :
        Get(items, clock, k).found =>
            /\ items[k].present
            /\ items[k].neverExpires \/ clock <= items[k].expiresAt
            /\ \/ lastWrite[k].op = "perm"
               \/ lastWrite[k].op = "set" /\ clock <= SetExpiry(k)

\* an expired item is still in the map and Get reports it as not found,
\* while another key is found
C1_Witness ==
    \E k, j \in Keys :
        /\ items[k].present /\ ~items[k].neverExpires /\ clock > items[k].expiresAt
        /\ ~Get(items, clock, k).found
        /\ Get(items, clock, j).found

\* C2: after Set(k, v, ttl) with ttl > 0 and no later write to k, Get(k)
\* returns (v, true) while the clock has not passed the expiry instant and
\* not found once it has, whether or not the sweep has run.
C2_GetAfterSet ==
    \A k \in Keys :
        lastWrite[k].op = "set" =>
            IF clock <= SetExpiry(k)
            THEN Get(items, clock, k) = [found |-> TRUE, value |-> lastWrite[k].value]
            ELSE ~Get(items, clock, k).found

\* one key was set and is still live after time has passed, another was set,
\* has expired and has not been swept
C2_Witness ==
    \E k, j \in Keys :
        /\ lastWrite[k].op = "set" /\ lastWrite[k].at < clock /\ clock <= SetExpiry(k)
        /\ Get(items, clock, k).found
        /\ lastWrite[j].op = "set" /\ clock > SetExpiry(j)
        /\ items[j].present /\ ~Get(items, clock, j).found

\* C3: a sweep removes exactly the items that are not permanent and whose
\* expiry instant is before the current time: right after a sweep no expired
\* item is left, and at all times every item stored by SetPermanent and every
\* unexpired item stored by Set is present with the value it was stored with.
C3_SweepExact ==
    /\ justSwept => \A k \in Keys : ~(items[k].present /\ Expired(items[k], clock))
    /\ \A k \in Keys :
        /\ lastWrite[k].op = "perm" => items[k] = PermItem(lastWrite[k].value)
        /\ (lastWrite[k].op = "set" /\ clock <= SetExpiry(k)) =>
                items[k] = SetItem(lastWrite[k].value, lastWrite[k].at, lastWrite[k].ttl)

\* a sweep has just removed an expired item and kept a permanent one that was
\* stored at an earlier instant
C3_Witness ==
    \E k, j \in Keys :
        /\ justSwept
        /\ lastWrite[k].op = "set" /\ clock > SetExpiry(k) /\ ~items[k].present
        /\ lastWrite[j].op = "perm" /\ lastWrite[j].at < clock /\ items[j].present

\* C4: writing the snapshot and loading it into a fresh store gives a store
\* whose Get agrees with the original store on every key that is permanent or
\* not expired at load time (value, expiry instant and never-expires flag are
\* preserved), and deleted and cleared keys stay absent.
C4_SnapshotRoundTrip ==
    (fresh.loaded /\ snapCurrent) =>
        \A k \in Keys :
            /\ (items[k].present /\ ~Expired(items[k], clock)) =>
                    /\ fresh.items[k] = items[k]
                    /\ Get(fresh.items, clock, k) = Get(items, clock, k)
            /\ ~items[k].present => ~fresh.items[k].present

(* ----------------------- deduplicator and pool claims ------------------ *)

\* two accepted calls ShouldQueue(id, d) with no Remove(id) between them are
\* at least d apart
AcceptsApart(id, d) ==
    accPrev[id][d] # NoRecord => accLast[id][d] - accPrev[id][d] >= d

\* C6 as stated, for every window d: among the calls ShouldQueue(id, d) with
\* no Remove(id) in between, at most one returns true within any interval of
\* length d (two accepted calls are at least d apart).
C6_AnyWindow == \A id \in DedupIds, d \in Windows : AcceptsApart(id, d)

\* C6, amended: for a window d of at most 24 hours, the age at which
\* cleanupLoop expunges records, two accepted calls ShouldQueue(id, d) with no
\* Remove(id) in between are at least d apart, so at most one call returns
\* true within any interval shorter than d.
C6_DedupWindow ==
    \A id \in DedupIds, d \in Windows : d <= CleanupAge => AcceptsApart(id, d)

\* an id was accepted twice with the 24 hour window and no Remove in between,
\* and a call for it inside the window is being rejected
C6_Witness ==
    \E id \in DedupIds :
        /\ accPrev[id][DedupWindow] # NoRecord
        /\ clock > accLast[id][DedupWindow]
        /\ ~Accepts(pending, id, DedupWindow, clock)

\* the uids of the tasks handed to a handler so far
HandedUids == {handedLog[i].uid : i \in 1..Len(handedLog)}

\* C8, amended: every task accepted into the queue is handed to a handler at
\* most once, never to two workers and never twice to the same worker: no uid
\* occurs twice among the tasks handed out, only accepted tasks are handed
\* out, and a task still in the queue has not been handed out. (A task that is
\* still queued when the stop signal is closed may never be executed.)
C8_AtMostOnce ==
    /\ \A i, j \in 1..Len(handedLog) : i # j => handedLog[i].uid # handedLog[j].uid
    /\ HandedUids \subseteq 1..nextUid
    /\ \A i \in 1..Len(queue) : queue[i].uid \notin HandedUids
    /\ \A w \in Workers : wpc[w] = "running" =>
            \E i \in 1..Len(handedLog) : handedLog[i] = [uid |-> wtask[w].uid, worker |-> w]

\* tasks have been handed out one after the other while another one waits
C8_Witness == Len(handedLog) >= 2 /\ Len(queue) >= 1

\* C8 as stated: handed out exactly once, and every accepted task is
\* eventually executed; so once every worker has exited, no accepted task is
\* left in the queue.
C8_ExactlyOnce ==
    /\ C8_AtMostOnce
    /\ (\A w \in Workers : wpc[w] = "exited") => queue = <<>>

\* C9: once the stop signal is closed a worker starts no further task, even
\* if tasks remain in the queue.
C9_NoStartAfterStop ==
    [][\A w \in Workers : (stopClosed /\ wpc[w] = "select") => wpc'[w] # "running"]_vars

\* C10: after Stop or StopAndWait has closed the stop signal and the queue,
\* every worker exits and the wait barrier is released, given that the task
\* being executed terminates.
C10_WorkersExit ==
    (stopClosed /\ queueClosed) ~> (wg = 0 /\ \A w \in Workers : wpc[w] = "exited")

\* the same, unless the process has died of a panic first
WorkersExitOrCrash ==
    (stopClosed /\ queueClosed) ~> (crashed \/ (wg = 0 /\ \A w \in Workers : wpc[w] = "exited"))

\* C7: the queue never holds more than 50 tasks; a submission made while the
\* open queue holds 50 can always take its step (the submitter is not
\* blocked), and that step leaves the queue as it was and drops the task.
C7_BoundedNonBlocking ==
    /\ [](Len(queue) <= QueueCap)
    /\ [](\A id \in Ids : (Alive /\ id \in userSend /\ Len(queue) = QueueCap) => ENABLED UserSend(id))
    /\ []((Alive /\ fpc = "send" /\ Len(queue) = QueueCap) => ENABLED FeederSend)
    /\ [][\A id \in Ids :
              (id \in userSend /\ id \notin userSend' /\ Len(queue) = QueueCap /\ ~queueClosed)
                  => (queue' = queue /\ lastSend' = "full")]_vars
    /\ [][(fpc = "send" /\ fpc' # "send" /\ Len(queue) = QueueCap /\ ~queueClosed)
              => (queue' = queue /\ lastSend' = "full" /\ fpc' = "idle")]_vars

\* a submission has just been dropped at a queue that holds 50 tasks
C7_Witness == lastSend = "full" /\ Len(queue) = QueueCap /\ ~queueClosed

\* C5: when gracefulShutdown has returned, no worker is executing a task, no
\* snapshot write is in progress and the snapshot file holds the map the
\* store holds.
C5_ShutdownQuiescent ==
    gpc = "done" =>
        /\ \A w \in Workers : wpc[w] # "running"
        /\ \A p \in Savers : savers[p].pc \notin {"create", "encoding"}
        /\ file = [kind |-> "data", items |-> items]

\* C11: with one worker, tasks start executing in the order in which their
\* submissions were accepted into the queue: the tasks handed out so far were
\* accepted in that order, and every task still queued was accepted after
\* them and waits in the order of acceptance.
C11_FifoOrder ==
    /\ \A i, j \in 1..Len(handedLog) : i < j => handedLog[i].uid < handedLog[j].uid
    /\ \A i, j \in 1..Len(queue) : i < j => queue[i].uid < queue[j].uid
    /\ \A i \in 1..Len(handedLog), j \in 1..Len(queue) : handedLog[i].uid < queue[j].uid

\* a task has been handed out while two later ones wait in the queue
C11_Witness == Len(handedLog) >= 1 /\ Len(queue) >= 2

\* C12: a worker whose handler has panicked is still alive, and so is the
\* process.
C12_PanicRecovered ==
    \A w \in Workers : wpc[w] = "panicked" => ~crashed

\* how many times x stands in the sequence s
Count(s, x) == Cardinality({i \in 1..Len(s) : s[i] = x})

\* C13: handleStream answers every request with a stream list and no error,
\* whatever the upstream services do: no activation ends without a response.
C13_AlwaysResponds ==
    /\ hs.pc # "panicked"
    /\ hs.pc = "done" => hs.resp.sent

\* C14: in every response the streams stand by videoSize, non-increasing, and
\* are a rearrangement of the streams built before the sort.
C14_SortedPermutation ==
    (hs.pc = "done" /\ hs.resp.sent) =>
        LET out == hs.resp.streams
        IN  /\ \A i \in 1..(Len(out) - 1) : out[i].videoSize >= out[i + 1].videoSize
            /\ Len(out) = Len(hs.built)
            /\ \A i \in 1..Len(out) : Count(out, out[i]) = Count(hs.built, out[i])

\* a response of two streams of different sizes that were built smaller first
C14_Witness ==
    /\ hs.pc = "done"
    /\ hs.resp.sent
    /\ Len(hs.built) >= 2
    /\ hs.built[1].videoSize < hs.built[2].videoSize
    /\ hs.resp.streams # hs.built

\* C15: within one response no two streams derive from the same
\* (infohash, fileIndex) pair.
C15_NoSharedPair ==
    (hs.pc = "done" /\ hs.resp.sent) =>
        \A i, j \in 1..Len(hs.resp.streams) :
            i # j => \/ hs.resp.streams[i].binge # hs.resp.streams[j].binge
                     \/ hs.resp.streams[i].from # hs.resp.streams[j].from

\* the streams built so far from the file f of the torrent with hash f.hash
BuiltFrom(f) ==
    {k \in 1..Len(hs.built) :
        /\ hs.built[k].binge = f.hash
        /\ hs.built[k].from = f.index
        /\ hs.built[k].filename = f.name
        /\ hs.built[k].videoSize = f.size}

\* the condition under which a file is to give a stream: a video extension,
\* at least 50 MiB for a series and 500 MiB for a movie, and for a series a
\* name that matches the requested season and episode
ToBeEmitted(name, size) ==
    /\ ToLower(name.ext) \in videoExtensions
    /\ size >= (IF hs.isSeries THEN 50 * 1024 * 1024 ELSE 500 * 1024 * 1024)
    /\ hs.isSeries => IsEpisodeFile(name, hs.season, hs.episode)

\* C20: for each file of a cached torrent whose listing succeeded, exactly one
\* stream is emitted when the file has a video extension, reaches the size
\* floor of the request and, for a series, matches the requested episode; no
\* stream is emitted for any other file.
C20_OneStreamPerFile ==
    hs.pc # "idle" =>
        (hs.last.seen =>
            Cardinality(BuiltFrom(hs.last)) =
                (IF ToBeEmitted(hs.last.name, hs.last.size) THEN 1 ELSE 0))

\* C16: in one Scrape call the results handed to hash resolution hold no two
\* results with the same details key, whatever the query variants return and
\* in whatever order their fetches end.
C16_NoDuplicateDetails ==
    scr.pc # "idle" =>
        \A i, j \in 1..Len(scr.all) : i # j => scr.all[i].details # scr.all[j].details

\* two results were handed on and a third, seen before, was dropped
C16_Witness ==
    /\ scr.pc = "process"
    /\ Len(scr.all) = 2
    /\ scr.dups >= 1

\* C17: over the results of one Scrape call that share a link, the link is
\* downloaded at most once: once a download has resolved it, every other
\* result takes the hash from the permanent hash_<link> entry.
C17_DownloadedOnce ==
    scr.pc # "idle" => \A l \in Links : scr.downloads[l] <= 1

\* a lower-case hexadecimal digit: 0-9 or a-f
IsLowerHex(b) == (48 <= b /\ b <= 57) \/ (97 <= b /\ b <= 102)

\* C18: normalizeInfoHash is idempotent, and its output is empty or exactly
\* 40 lower-case hexadecimal characters, also for 80-character inputs.
C18_IdempotentHex ==
    call.fn = "normalizeInfoHash" =>
        /\ call.again = call.out
        /\ \/ call.out = <<>>
           \/ Len(call.out) = 40 /\ \A i \in 1..Len(call.out) : IsLowerHex(call.out[i])

\* what a title names, for the request of the last call
NamesExactEpisode ==
    call.title.range = <<0, 0>> /\ call.title.eps = <<0, 0, 0>>
    /\ call.title.tag = call.season /\ call.title.ep = <<call.season, call.episode>>

NamesSeasonPack ==
    call.title.range = <<0, 0>> /\ call.title.ep = <<0, 0>> /\ call.title.tag = call.season

NamesCoveringRange ==
    call.title.range # <<0, 0>>
    /\ call.title.range[1] <= call.season /\ call.season <= call.title.range[2]

NamesOtherSeason ==
    /\ call.title.range = <<0, 0>> /\ call.title.tag # 0 /\ call.title.tag # call.season
    /\ call.title.ep # <<0, 0>> => call.title.ep[1] # call.season

NamesOtherEpisode ==
    call.title.range = <<0, 0>> /\ call.title.eps = <<0, 0, 0>>
    /\ call.title.tag = call.season
    /\ call.title.ep # <<0, 0>> /\ call.title.ep[1] = call.season
    /\ call.title.ep[2] # call.episode

NamesOtherRange ==
    call.title.range # <<0, 0>>
    /\ ~(call.title.range[1] <= call.season /\ call.season <= call.title.range[2])

\* C19: for a series request the filter keeps a title that names the exact
\* episode, the requested season as a pack, a season range holding the
\* requested season or a complete-series indicator, and it drops a title that
\* names another season, another episode of the season or a season range that
\* does not hold the requested season.
C19_KeepsIff ==
    call.fn = "shouldFilterSeriesResult" =>
        /\ (NamesExactEpisode \/ NamesSeasonPack \/ NamesCoveringRange) => ~call.out
        /\ (~call.title.complete /\ (NamesOtherSeason \/ NamesOtherEpisode \/ NamesOtherRange))
               => call.out

(* ---------------------------- start-up claims --------------------------- *)

\* C22: a store created while the snapshot file is missing or cannot be
\* decoded is empty (Size() = 0) and the process is running; no key holds an
\* entry from such a file, and a Set on that store followed by Get returns
\* the value.
C22_StartsEmpty ==
    /\ (fresh.loaded /\ file.kind # "data")
            => (Size(items) = 0 /\ items = EmptyMap /\ Alive)
    /\ \A j \in Keys :
            (lastWrite[j].op = "load" /\ lastWrite[j].value # "data") =>
                /\ ~items[j].present
                /\ \A k \in Keys :
                       (lastWrite[k].op = "set" /\ clock <= SetExpiry(k)) =>
                           Get(items, clock, k) = [found |-> TRUE, value |-> lastWrite[k].value]

\* a store created from a file cut short that held entries, in which one key
\* was set afterwards and is found while the other key has no entry
C22_Witness ==
    \E k, j \in Keys :
        /\ lastWrite[j].op = "load" /\ lastWrite[j].value = "torn"
        /\ file.kind = "torn" /\ Size(file.items) > 0
        /\ lastWrite[k].op = "set"
        /\ Get(items, clock, k).found

(* --------------------------- snapshot claims ---------------------------- *)

\* C23: while a snapshot is being encoded, the map it encodes is not written
\* to by a concurrent Set, SetPermanent, Delete or sweep, so what is written
\* is the store at one instant.
C23_EncodesUnmutated ==
    \A p \in Savers : savers[p].pc = "encoding" => ~savers[p].raced

\* C24: whenever the dirty flag is clear and no snapshot write is in progress,
\* the snapshot file holds every mutation that has committed: loading it
\* gives the map the store holds.
C24_CleanMeansSaved ==
    (~crashed /\ ~dirty /\ \A p \in Savers : savers[p].pc = "idle")
        => Loaded(file) = items

\* C25: at no time are two writes of the persistence file in progress
\* together: the Flush of the shutdown path and the periodic snapshotter are
\* never both between os.Create and the end of Encode.
C25_OneWriter ==
    ~(savers["periodic"].pc = "encoding" /\ savers["flush"].pc = "encoding")

(* ------------------------ producers and shutdown ------------------------ *)

\* C26: after Stop or StopAndWait has closed the queue no producer sends on
\* it: no select-send of UserBackgroundTask or of the trending feeder ends in
\* the panic of a send on a closed channel, and the process stays alive.
C26_NoSendOnClosed == lastSend # "panic" /\ ~crashed

\* C27: when SIGINT or SIGTERM arrives while the server is serving, graceful
\* shutdown eventually runs to its end: the server is stopped, the workers
\* are stopped and the cache is flushed (unless the process has died first).
C27_SignalShutsDown == (gpc = "signalled") ~> (gpc = "done" \/ crashed)

(* ------------------------ deduplicator and pool ------------------------ *)

\* C28: when a worker finishes executing a task the record of the task's id
\* is removed, so that ShouldQueue for that id is accepted again inside the
\* window; while a task is queued or being executed, ShouldQueue for its id
\* within the window is rejected.
C28_RemovedOnCompletion ==
    /\ [](\A t \in InSystem : ~Accepts(pending, t.id, DedupWindow, clock))
    /\ [][\A w \in Workers :
              (wpc[w] = "running" /\ wpc'[w] = "select") =>
                  Accepts(pending', wtask[w].id, DedupWindow, clock')]_vars

\* within the first window more tasks than there are ids were accepted, so an
\* id was accepted again after its task completed; two tasks have completed
\* and the third is queued with its id recorded
C28_Witness ==
    /\ clock < DedupWindow
    /\ nextUid > NumIds
    /\ Len(handedLog) = nextUid - 1
    /\ \A w \in Workers : wpc[w] = "select"
    /\ Len(queue) = 1
    /\ pending[queue[1].id] # NoRecord

\* C29: every id recorded in the deduplicator belongs to a task that is on
\* its way to the queue, queued or being executed; an enqueue dropped at the
\* full queue leaves no record behind.
C29_RecordsHaveTasks ==
    \A id \in Ids : pending[id] # NoRecord => id \in InSystemIds

\* C30: the trending feeder never adds a task to a queue that already holds
\* more than 30 tasks, whatever the users submit and the workers take
\* meanwhile, and its run ends at the first enqueue rejected by the full queue.
C30_FeederAdmission ==
    [][(fpc = "send" /\ fpc' # "send") =>
           /\ Len(queue') > Len(queue) => Len(queue) <= FillThreshold
           /\ lastSend' = "full" => fpc' = "idle"]_vars

\* C31: a queued user-triggered task (priority 0) is started before any
\* queued trending task (priority 1): the task a worker takes has no queued
\* task of higher priority (a smaller number) behind it.
C31_UserFirst ==
    [][\A w \in Workers :
           (wpc[w] = "select" /\ wpc'[w] = "running") =>
               \A i \in 1..Len(queue) : wtask'[w].priority <= queue[i].priority]_vars

\* C33: handling a movie request never submits a background task; handling a
\* series request submits at most one task, of kind series-prefetch with
\* priority 0 and only when the id has no record younger than the window; the
\* response is returned whether the queue accepted or dropped the task.
C33_SubmitsAtMostOne ==
    [][(hs' # hs /\ hs.pc # "idle") =>
           /\ ~hs.isSeries =>
                  (queue' = queue /\ pending' = pending /\ nextUid' = nextUid)
           /\ (queue' # queue \/ nextUid' # nextUid) =>
                  /\ hs.pc = "send"
                  /\ hs'.pc \in {"done", "panicked"}
                  /\ nextUid' = nextUid + 1
           /\ queue' # queue =>
                  /\ Len(queue') = Len(queue) + 1
                  /\ SubSeq(queue', 1, Len(queue)) = queue
                  /\ queue'[Len(queue')].type = "series-prefetch"
                  /\ queue'[Len(queue')].priority = 0
                  /\ queue'[Len(queue')].id = hs.id
           /\ (hs'.pc = "send" /\ hs.pc # "send") =>
                  /\ hs.pc = "shouldQueue"
                  /\ (pending[hs.id] = NoRecord \/ clock - pending[hs.id] >= DedupWindow)
           /\ (hs'.pc = "shouldQueue" /\ hs.pc # "shouldQueue") => hs.pc = "background"
           /\ (hs.pc = "send" /\ lastSend' \in {"queued", "full"}) =>
                  (hs'.pc = "done" /\ hs'.resp.sent)]_vars

\* a series request has been answered although its task was dropped at the
\* full queue: its id is recorded and no task with its id is queued or executing
C33_Witness ==
    /\ hs.pc = "done"
    /\ hs.isSeries
    /\ hs.resp.sent
    /\ lastSend = "full"
    /\ Len(queue) = QueueCap
    /\ pending[hs.id] # NoRecord
    /\ \A t \in InSystem : t.id # hs.id

(* ----------------------------- scrape claims --------------------------- *)

\* C34: Scrape always returns, whatever the query variants fetch and however
\* fetches and hash resolutions fail: no fetch goroutine stays blocked on a
\* send, and every result a successful variant fetched has been merged (kept,
\* or dropped as seen before) when the processing starts.
C34_ScrapeReturns ==
    /\ [](scr.pc # "idle" => \A q \in DOMAIN scr.fetch : scr.fetch[q] # "blocked")
    /\ [](scr.pc \in {"process", "done"} =>
              scr.fetched = Cardinality(scr.seen) + scr.dups)
    /\ (scr.pc = "fetch") ~> (scr.pc = "done")

\* a call with three query variants has returned: two of them failed, the
\* third fetched a result, which was handed on to the processing
C34_Witness ==
    /\ scr.pc = "done"
    /\ Cardinality({q \in DOMAIN scr.fetch : scr.fetch[q] = "failed"}) = 2
    /\ Cardinality({q \in DOMAIN scr.fetch : scr.fetch[q] = "sent"}) = 1
    /\ Len(scr.all) >= 1

(* --------------------------- hash list claims -------------------------- *)

\* the position of the first torrent of ts that carries the hash h
FirstIndex(ts, h) ==
    CHOOSE k \in 1..Len(ts) :
        ts[k].infoHash = h /\ \A l \in 1..(k - 1) : ts[l].infoHash # h

\* C35: the hash list passed to the bulk availability check holds each
\* non-empty infohash of the scraped torrents exactly once, in the order of
\* first occurrence; the check is reached at most once per request, from the
\* list built after the search, and never with an empty list.
C35_HashListOnce ==
    /\ [](hs.pc = "check" =>
            LET ts == call.arg
                hashes == hs.hashes
            IN  /\ hashes # <<>>
                /\ \A i \in 1..Len(hashes) :
                       hashes[i] # "" /\ \E k \in 1..Len(ts) : ts[k].infoHash = hashes[i]
                /\ \A k \in 1..Len(ts) :
                       ts[k].infoHash # "" =>
                           Cardinality({i \in 1..Len(hashes) : hashes[i] = ts[k].infoHash}) = 1
                /\ \A i, j \in 1..Len(hashes) :
                       i < j => FirstIndex(ts, hashes[i]) < FirstIndex(ts, hashes[j]))
    /\ [][/\ (hs'.pc = "check" /\ hs.pc # "check") => hs.pc = "hashes"
          /\ (hs'.pc = "hashes" /\ hs.pc # "hashes") => hs.pc = "search"
          /\ (hs'.pc = "search" /\ hs.pc # "search") => hs.pc = "idle"
          /\ (hs.pc = "hashes" /\ hs'.pc = "sort") =>
                 \A k \in 1..Len(call'.arg) : call'.arg[k].infoHash = ""]_vars

\* the bulk check is about to be called for three torrents of which the first
\* and the last share a hash: the list holds that hash first and the other next
C35_Witness ==
    /\ hs.pc = "check"
    /\ Len(call.arg) = 3
    /\ call.arg[1].infoHash = call.arg[3].infoHash
    /\ Len(hs.hashes) = 2
    /\ hs.hashes[1] = call.arg[1].infoHash

(* ------------------------- debrid client claims ------------------------ *)

\* b holds the elements of a, each as often, in some order
IsPermutation(a, b) ==
    /\ Len(a) = Len(b)
    /\ \A i \in 1..Len(a) : Count(a, a[i]) = Count(b, a[i])

\* C36: the availability-check cache key does not depend on the order of the
\* hashes: when an answered check of a list is in the cache and has not
\* expired, a check of any permutation of that list is not posted to the
\* service.
C36_KeyIgnoresOrder ==
    \A c \in CheckCallers :
        Checks[c].pc # "idle" =>
            ((\E g \in Checks[c].live : IsPermutation(g, Checks[c].hashes))
                 => (Checks[c].hit /\ ~Checks[c].posted))

(* ------------------------- stream fallback claims ---------------------- *)

\* the streams built so far that are the fallback stream of the torrent with
\* hash h
FallbacksOf(h) ==
    {k \in 1..Len(hs.built) : hs.built[k] = buildStream(hs.hashMap[h])}

\* the streams built so far from a file of a listing
FileStreams ==
    {k \in 1..Len(hs.built) : hs.built[k] # buildStream(hs.hashMap[hs.built[k].binge])}

\* C37: a cached torrent whose file listing fails gets exactly one fallback
\* stream (infohash and file index, no URL); the stream of a selected file
\* carries a URL iff the URL request succeeded, and otherwise the infohash and
\* the file's index.
C37_FallbackStreams ==
    hs.pc \notin {"idle", "search", "panicked"} =>
        /\ \A h \in DOMAIN hs.hashMap :
               /\ Cardinality(FallbacksOf(h)) <= 1
               /\ \A k \in FallbacksOf(h) :
                      hs.built[k].url = "" /\ hs.built[k].infoHash = h
        /\ "list" \in hs.failed => \E h \in DOMAIN hs.hashMap : FallbacksOf(h) # {}
        /\ \A k \in FileStreams :
               \/ hs.built[k].url # "" /\ hs.built[k].infoHash = ""
               \/ /\ hs.built[k].url = ""
                  /\ hs.built[k].infoHash = hs.built[k].binge
                  /\ hs.built[k].fileIdx = hs.built[k].from
        /\ "link" \in hs.failed <=> \E k \in FileStreams : hs.built[k].url = ""


\* C38: a result whose raw infohash normalizes to 40 hexadecimal characters
\* is resolved to that hash without a read of the link cache and without a
\* download of its link, even when it has a link.
C38_RawHashFirst ==
    scr.pc \in {"process", "done"} =>
        \A i \in DOMAIN scr.proc :
            LET n == normalizeInfoHash(scr.all[i].infoHash)
            IN  (Len(n) = HashLen /\ \A k \in 1..Len(n) : IsHexDigit(n[k])) =>
                    /\ scr.proc[i].pc \in {"get", "send", "done"}
                    /\ scr.proc[i].pc \in {"send", "done"} =>
                           /\ scr.proc[i].via = "raw"
                           /\ scr.proc[i].hash = n


\* C39: when word scoring is reached and the last search word is a number y,
\* a torrent word equal to y-1 or y+1 makes that search word count as
\* matched; the score is the integer percentage of the search words counted,
\* and Matches accepts when the score reaches the matcher's minimum.
C39_YearTolerance ==
    (call.fn = "Matches" /\ call.reached) =>
        LET n == Len(call.search)
            last == call.search[n]
            y == DigitsValue(last)
        IN  /\ call.score = (Cardinality(call.matched) * 100) \div n
            /\ (/\ \A k \in 1..Len(last) : IsDigit(last[k])
                /\ \E j \in 1..Len(call.torrent) :
                       call.torrent[j] \in {Itoa(y - 1), Itoa(y + 1)})
               => n \in call.matched
            /\ call.score >= call.minScore => call.out


============================================================================
